---- MODULE Spec2Model ----
(***************************************************************************)
(* A model of the library reconciler of wora (main/helpers/db/connectDB.ts *)
(* and main/helpers/db/createDB.ts, main/background.ts):                   *)
(* initializeData -> processLibrary -> processBatch -> processAudioFile    *)
(* -> cleanupOrphanedRecords, over a small music folder and the songs,     *)
(* albums, playlists and playlistSongs tables.                             *)
(*                                                                         *)
(* Modelling decisions:                                                    *)
(*  - the music folder is a fixed directory tree (Listing); which audio    *)
(*    files are present varies, what a path holds (its tags) is chosen     *)
(*    when the file first exists and never rewritten;                      *)
(*  - the disk in Init is any set of files; it changes only between two    *)
(*    reconciles, never while one is running;                              *)
(*  - cover art, year and duration are left out: they never decide which   *)
(*    row is inserted or deleted;                                          *)
(*  - in Spec store writes always succeed and a transaction applies all   *)
(*    of its statements; FaultSpec lets them throw;                        *)
(*  - one file is processed in one step: the awaits inside                 *)
(*    processAudioFile are not interleaved with other work.                *)
(*                                                                         *)
(* Specifications:                                                         *)
(*  - Spec: reconciles one after the other, the disk changing between      *)
(*    them;                                                                *)
(*  - FaultSpec: Spec's reconciles with processAudioFile or the cleanup    *)
(*    throwing;                                                            *)
(*  - UnreadableSpec: Spec's reconciles with directories that readdir      *)
(*    fails on;                                                            *)
(*  - OverlapSpec: scans of a folder requested while another one runs;     *)
(*  - PlaylistSpec: the playlist handlers after the first scan;            *)
(*  - SongsPageSpec and CacheSpec: the renderer's songs and albums pages   *)
(*    and their caches over an indexed library;                            *)
(*  - SearchSpec: the songs page with its search box;                      *)
(*  - MembershipSpec: the playlist membership handlers, one store query    *)
(*    at a time;                                                           *)
(*  - RescanSpec: the rescanLibrary request and the reconcile it starts;   *)
(*  - DataCacheSpec: the main process's cache of library statistics and    *)
(*    random items;                                                        *)
(*  - ScrobbleSpec: the Last.fm side of the Player component;              *)
(*  - PlayerSpec: the play queue of the PlayerProvider.                    *)
(***************************************************************************)
EXTENDS Bags, FiniteSets, Integers, Sequences, TLC

(***************************************************************************)
(* Bounds                                                                  *)
(***************************************************************************)
\* number of reconcile runs in one behaviour
MaxRuns == 2
\* number of file additions/removals on disk in one behaviour
MaxFsChanges == 1
\* number of playlistSongs rows the user adds in one behaviour
MaxMemberships == 1
\* number of rows of table playlists
MaxPlaylists == 3
\* number of addSongToPlaylist, removeSongFromPlaylist and addToFavourites
\* requests in one behaviour
MaxCalls == 3
\* number of playlist mutations in one behaviour of the data cache
MaxMutations == 2
\* scrobble requests in one behaviour
MaxScrobbles == 2
\* updateNowPlaying requests that have not resolved
MaxNowPlaying == 2
\* changes of the Last.fm settings in one behaviour
MaxSettingsChanges == 2
\* songs in the play queue and in originalQueue
MaxQueueLen == 3
\* songs in the player's history
MaxHistory == 1
\* the renderer's clock stops here
MaxClock == 6
\* limit of getSongs (30 in the source), scaled
SongsPerPage == 2
\* limit of getAlbums and getAlbumsWithDuration (15 in the source), scaled
AlbumsPerPage == 1
\* number of files whose processing throws in one reconcile
MaxFailures == 1
\* batchSize of the incremental background pass (100 in the source), scaled
IncrementalBatchSize == 1
\* batchSize of the non-incremental pass (300 in the source), scaled
FullBatchSize == 2
\* batchSize of the orphan deletion (50 in the source), scaled
CleanupBatchSize == 1

Runs == 1..MaxRuns

(***************************************************************************)
(* The music folder: a fixed tree, entries in readdir order.               *)
(***************************************************************************)
MusicFolder == "M"

Directories == {"M", "M/a", "M/a/d"}

AudioPaths == {"M/a/y.flac", "M/a/d/x.mp3", "M/m.ogg"}

\* entries that are on disk in every state
FixedFiles == {"M/a/cover.jpg"}

Listing ==
  [d \in Directories |->
     CASE d = "M"     -> <<"M/a", "M/m.ogg">>
       [] d = "M/a"   -> <<"M/a/cover.jpg", "M/a/y.flac", "M/a/d">>
       [] d = "M/a/d" -> <<"M/a/d/x.mp3">>]

\* path.extname(filePath).toLowerCase()
ExtName ==
  [p \in AudioPaths \cup FixedFiles |->
     CASE p = "M/a/y.flac"    -> ".flac"
       [] p = "M/a/d/x.mp3"   -> ".mp3"
       [] p = "M/m.ogg"       -> ".ogg"
       [] p = "M/a/cover.jpg" -> ".jpg"]

audioExtensions ==
  {".mp3", ".mpeg", ".opus", ".ogg", ".oga", ".wav", ".aac", ".caf",
   ".m4a", ".m4b", ".mp4", ".weba", ".webm", ".dolby", ".flac"}

isAudioFile(filePath) == ExtName[filePath] \in audioExtensions

IsDirectory(itemPath) == itemPath \in Directories

(***************************************************************************)
(* What music-metadata's parseFile yields for a file: ok = FALSE is a      *)
(* file it throws on; an empty string is an absent tag.                    *)
(***************************************************************************)
FileKinds ==
  { [ok |-> TRUE,  title |-> "T", album |-> "A",   artist |-> "C",   albumartist |-> ""],
    [ok |-> TRUE,  title |-> "T", album |-> "A",   artist |-> "B-C", albumartist |-> ""],
    [ok |-> TRUE,  title |-> "T", album |-> "A-B", artist |-> "C",   albumartist |-> ""],
    [ok |-> TRUE,  title |-> "",  album |-> "A",   artist |-> "C",   albumartist |-> ""],
    [ok |-> FALSE, title |-> "T", album |-> "A",   artist |-> "C",   albumartist |-> ""] }

\* the content of a path that has never been on disk
Unwritten ==
  [ok |-> FALSE, title |-> "", album |-> "", artist |-> "", albumartist |-> ""]

VARIABLES
  tags,           \* what each path holds, fixed once the file has existed
  present,        \* the audio files on disk
  songs,          \* rows of table songs
  albums,         \* rows of table albums
  playlists,      \* rows of table playlists
  playlistSongs,  \* rows of table playlistSongs (a bag: no key, no constraint)
  run,            \* [Runs -> the state of one initializeData call]
  fsChanges,      \* disk changes so far
  memberships,    \* playlistSongs rows added by the user so far
  diskChanged,    \* a file came or went since the latest reconcile started
  unreadable,     \* the directories fs.readdirSync throws on
  response,       \* what the latest addSongToPlaylist request resolved to
  toast,          \* the message of the latest toast of the navbar
  now,            \* Date.now() of the renderer, in minutes
  store,          \* the store of the SongCache singleton
  songsPage,      \* the state of the AllSongs component
  albumStore,     \* the store of the AlbumCache singleton
  albumsPage,     \* the state of the Albums component
  calls,          \* [Calls -> the state of one playlist request's handler]
  rescan,         \* how far the settings page's rescanLibrary request is
  dataCache,      \* the main process's dataCache and what its readers got
  scrobbler,      \* the Last.fm state of the Player component
  player          \* the state of the PlayerProvider

\* the renderer's side
\* the main process besides the reconciler, and the player
appVars == <<calls, rescan, dataCache, scrobbler, player>>

uiVars == <<response, toast, now, store, songsPage, albumStore, albumsPage,
            appVars>>

vars == <<tags, present, songs, albums, playlists, playlistSongs, run,
          fsChanges, memberships, diskChanged, unreadable, uiVars>>

(***************************************************************************)
(* Helpers on sequences and rows                                           *)
(***************************************************************************)
Max(S) == CHOOSE m \in S : \A n \in S : n <= m

\* Array.prototype.slice(from, to) with 0-based bounds
Slice(arr, from, to) ==
  LET hi == IF to < Len(arr) THEN to ELSE Len(arr)
  IN  IF from >= hi THEN <<>> ELSE SubSeq(arr, from + 1, hi)

Range(seq) == {seq[n] : n \in 1..Len(seq)}

\* INTEGER PRIMARY KEY without AUTOINCREMENT: largest rowid + 1
NextRowId(rows) == IF rows = {} THEN 1 ELSE Max({r.id : r \in rows}) + 1

\* rows in rowid order
RECURSIVE RowsById(_)
RowsById(rows) ==
  IF rows = {} THEN <<>>
  ELSE LET first == CHOOSE r \in rows : \A q \in rows : r.id <= q.id
       IN  <<first>> \o RowsById(rows \ {first})

(***************************************************************************)
(* Directory walker                                                        *)
(***************************************************************************)
\* fs.readdirSync(dir): the entries that exist, in directory order; where it
\* throws, the catch of the walker leaves the directory without entries
ReadDir(dir, disk) ==
  IF dir \in unreadable THEN <<>>
  ELSE SelectSeq(Listing[dir],
                 LAMBDA e : e \in Directories \/ e \in FixedFiles \/ e \in disk)

RECURSIVE scanEntireLibrary(_, _)
RECURSIVE ScanItems(_, _, _)
ScanItems(items, n, disk) ==
  IF n > Len(items) THEN <<>>
  ELSE (IF IsDirectory(items[n]) THEN scanEntireLibrary(items[n], disk)
        ELSE IF isAudioFile(items[n]) THEN <<items[n]>>
        ELSE <<>>) \o ScanItems(items, n + 1, disk)

\* the walk that stops below the immediate subdirectories
ScanShallowOnly(dir, disk) ==
  LET items == ReadDir(dir, disk)
  IN  SelectSeq(items, LAMBDA e : ~IsDirectory(e) /\ isAudioFile(e))

scanEntireLibrary(dir, disk) == ScanItems(ReadDir(dir, disk), 1, disk)

RECURSIVE SubdirFiles(_, _, _)
SubdirFiles(items, n, disk) ==
  IF n > Len(items) THEN <<>>
  ELSE (IF IsDirectory(items[n])
        THEN SelectSeq(ReadDir(items[n], disk),
                       LAMBDA e : ~IsDirectory(e) /\ isAudioFile(e))
        ELSE <<>>) \o SubdirFiles(items, n + 1, disk)

scanImmediateDirectory(dir, disk) ==
  LET items == ReadDir(dir, disk)
  IN  SelectSeq(items, LAMBDA e : ~IsDirectory(e) /\ isAudioFile(e))
      \o SubdirFiles(items, 1, disk)

(***************************************************************************)
(* Per-file upsert                                                         *)
(***************************************************************************)
\* metadata.common.album || "Unknown Album"
AlbumName(meta) == IF meta.album = "" THEN "Unknown Album" ELSE meta.album

\* metadata.common.artist || "Unknown Artist"
SongArtist(meta) == IF meta.artist = "" THEN "Unknown Artist" ELSE meta.artist

\* metadata.common.albumartist || metadata.common.artist || "Various Artists"
AlbumArtist(meta) ==
  IF meta.albumartist # "" THEN meta.albumartist
  ELSE IF meta.artist # "" THEN meta.artist
  ELSE "Various Artists"

\* the template string `${album}-${artist}`
AlbumKey(meta) == AlbumName(meta) \o "-" \o SongArtist(meta)

HasTitleAlways(meta) == TRUE

\* !metadata.common.title is false
HasTitle(meta) == meta.title # ""

EmptyCache == [key \in {} |-> key]

\* The effect of processAudioFile(file, albumCache) on the rows S of songs,
\* the rows A of albums and the batch's albumCache.
processAudioFile(file, cache, S, A) ==
  LET meta     == tags[file]
      same     == [songs |-> S, albums |-> A, cache |-> cache,
                   insSongs |-> 0, insAlbums |-> 0]
      key      == AlbumKey(meta)
      found    == {a \in A : a.name = AlbumName(meta)}
      first    == CHOOSE a \in found : \A b \in found : a.id <= b.id
      updated  == [first EXCEPT !.artist = AlbumArtist(meta)]
      newAlbum == [id |-> NextRowId(A), name |-> AlbumName(meta),
                   artist |-> AlbumArtist(meta)]
      album    == IF key \in DOMAIN cache THEN cache[key]
                  ELSE IF found # {} THEN updated
                  ELSE newAlbum
      A2       == IF key \in DOMAIN cache THEN A
                  ELSE IF found # {} THEN (A \ {first}) \cup {updated}
                  ELSE A \cup {newAlbum}
      row      == [id |-> NextRowId(S), filePath |-> file,
                   name |-> meta.title, artist |-> SongArtist(meta),
                   albumId |-> album.id]
  IN  IF ~meta.ok THEN same            \* parseFile throws, caught at line 781
      ELSE IF ~HasTitle(meta) THEN same
      ELSE [songs |-> S \cup {row}, albums |-> A2,
            cache |-> (key :> album) @@ cache,
            insSongs |-> 1,
            insAlbums |-> IF key \notin DOMAIN cache /\ found = {} THEN 1 ELSE 0]

\* One iteration of the loop of processBatch(files, dbFilePaths)
processBatch(file, dbFilePaths, cache, S, A) ==
  IF file \notin dbFilePaths
  THEN processAudioFile(file, cache, S, A)
  ELSE [songs |-> S, albums |-> A, cache |-> cache,
        insSongs |-> 0, insAlbums |-> 0]

\* getAllFilePathsFromDb()
getAllFilePathsFromDb(S) == {s.filePath : s \in S}

(***************************************************************************)
(* Orphan cleanup                                                          *)
(***************************************************************************)
\* dbFiles.filter((dbFile) => !currentFilesSet.has(dbFile.filePath))
OrphanedSongs(currentFiles, S) ==
  RowsById({s \in S : s.filePath \notin Range(currentFiles)})

KeepMemberships(ps, ids) == ps

\* tx.delete(playlistSongs).where(eq(playlistSongs.songId, file.id))
RemoveMemberships(ps, ids) ==
  [row \in {x \in DOMAIN ps : x.songId \notin ids} |-> ps[row]]

NoEmptyAlbums(A, S) == {}

AlbumsWithAtMostOneSong(A, S) ==
  {a \in A : Cardinality({s \in S : s.albumId = a.id}) <= 1}

\* the albums for which songsInAlbum.length === 0
EmptyAlbums(A, S) == {a \in A : {s \in S : s.albumId = a.id} = {}}

(***************************************************************************)
(* The renderer before any page is mounted                                 *)
(***************************************************************************)
\* const initialState of lib/songCache.ts and of lib/albumCache.ts
initialState ==
  [all |-> <<>>, filtered |-> <<>>, sortOrder |-> "asc", page |-> 1,
   hasMore |-> TRUE, lastFetchTime |-> 0, isInitialized |-> FALSE,
   searchResults |-> <<>>, lastSearchQuery |-> ""]

\* A page component that is not mounted. items, filtered, sortOrder, page
\* and hasMore are its useState values; loading and sorting hold the
\* closure of a request that has not resolved; shown, fetched and age record
\* what its mount found: the cached items it showed, whether its effects
\* sent a request, and Date.now() - lastFetchTime.
Unmounted ==
  [mounted |-> FALSE, items |-> <<>>, filtered |-> <<>>, sortOrder |-> "asc",
   page |-> 1, hasMore |-> TRUE, loading |-> <<>>, sorting |-> <<>>,
   shown |-> 0, fetched |-> FALSE, age |-> 0, searchTerm |-> "",
   searching |-> <<>>]

\* handlers of playlist requests the main process can have been sent
Calls == 1..MaxCalls

\* a request that has not been sent
NoCall == [op |-> "", playlistId |-> 0, songId |-> 0, pc |-> "idle",
           exists |-> FALSE]

\* null, and "no call answered yet"
None == 0 - 1

\* const dataCache = {libraryStats: null, randomItems: null, lastUpdated: 0}.
\* A cached or returned value is written as the number of playlist mutations
\* the store had seen when it was queried; mutations counts them, gotStats
\* and gotItems are what the latest getLibraryStats and getRandomLibraryItems
\* request since the latest mutation was answered with.
EmptyDataCache ==
  [libraryStats |-> None, randomItems |-> None, lastUpdated |-> 0,
   mutations |-> 0, gotStats |-> None, gotItems |-> None]

\* The Last.fm side of the Player component before a song is chosen, with
\* a Last.fm session stored and its settings loaded. song, isPlaying,
\* enableLastFm, isScrobbled and scrobbleTimerStarted are its state;
\* reached is playedPercentage >= scrobbleThreshold of the Howl in
\* soundRef; timer is whether scrobbleTimeout holds a live interval;
\* authenticated is the sessionKey of lib/lastfm.ts; stored is the
\* enableLastFm of the settings table and loading the settings on their
\* way to the player; nowPlaying, inFlight and inFlightOld count the
\* updateNowPlaying requests, the scrobble requests of this play and those
\* of earlier plays that have not resolved. sent, succeeded and failed
\* count the scrobble requests of this play, requests counts those of all
\* plays, changes the settings changes; sentWhileOff records a scrobble
\* request sent after the player had loaded enableLastFm = false.
NoScrobbler ==
  [song |-> 0, isPlaying |-> FALSE, reached |-> FALSE,
   enableLastFm |-> TRUE, authenticated |-> TRUE, stored |-> TRUE,
   loading |-> <<>>, isScrobbled |-> FALSE, scrobbleTimerStarted |-> FALSE,
   timer |-> FALSE, nowPlaying |-> 0, inFlight |-> 0, inFlightOld |-> 0,
   sent |-> 0, succeeded |-> 0, failed |-> 0, requests |-> 0, changes |-> 0,
   sentWhileOff |-> FALSE]

\* The PlayerProvider's state with nothing stored in localStorage; a song
\* is its id and 0 is no song. currentIndex counts from 0 as in the code.
initialPlayerState ==
  [song |-> 0, queue |-> <<>>, originalQueue |-> <<>>, history |-> <<>>,
   currentIndex |-> 0, repeat |-> FALSE, shuffle |-> FALSE]

\* player.state is the PlayerState; op and arg name the last operation and
\* the song it was given, wasShuffle is the shuffle flag it found.
AppInit ==
  /\ calls = [c \in Calls |-> NoCall]
  /\ rescan = "idle"
  /\ dataCache = EmptyDataCache
  /\ scrobbler = NoScrobbler
  /\ player = [state |-> initialPlayerState, op |-> "none", arg |-> 0,
               wasShuffle |-> FALSE]

UiInit ==
  /\ response = FALSE
  /\ toast = ""
  /\ now = 0
  /\ store = initialState
  /\ songsPage = Unmounted
  /\ albumStore = initialState
  /\ albumsPage = Unmounted
  /\ AppInit

(***************************************************************************)
(* The state of one initializeData call                                    *)
(***************************************************************************)
IdleRun ==
  [pc |-> "idle", musicFolder |-> MusicFolder,
   incremental |-> FALSE, returned |-> FALSE,
   overlapped |-> FALSE, failed |-> {},
   dbFilePaths |-> {}, initialBatch |-> <<>>, allFiles |-> <<>>,
   i |-> 0, k |-> 1, albumCache |-> EmptyCache,
   deletedFiles |-> <<>>, d |-> 0,
   repeat |-> FALSE,
   insSongs |-> 0, insAlbums |-> 0,
   delSongs |-> 0, delAlbums |-> 0, delMemberships |-> 0]

BatchSize(r) ==
  IF run[r].incremental THEN IncrementalBatchSize ELSE FullBatchSize

\* the batch the run is working on
CurrentBatch(r) ==
  IF run[r].pc = "shallow" THEN run[r].initialBatch
  ELSE Slice(run[r].allFiles, run[r].i, run[r].i + BatchSize(r))

NoRunActive == \A q \in Runs : run[q].pc \in {"idle", "done"}

SomeRunDone == \E q \in Runs : run[q].pc = "done"

\* what is kept of a call that is over: its locals are gone; the mode, the
\* two walks and the counters stay for the properties to read
Finished(rec) ==
  [IdleRun EXCEPT !.pc = "done", !.returned = TRUE,
                  !.musicFolder = rec.musicFolder,
                  !.incremental = rec.incremental,
                  !.overlapped = rec.overlapped,
                  !.failed = rec.failed,
                  !.initialBatch = rec.initialBatch,
                  !.allFiles = rec.allFiles,
                  !.repeat = rec.repeat,
                  !.insSongs = rec.insSongs, !.insAlbums = rec.insAlbums,
                  !.delSongs = rec.delSongs, !.delAlbums = rec.delAlbums,
                  !.delMemberships = rec.delMemberships]

\* an earlier call that is over leaves nothing behind
Forgotten(rec) == IF rec.pc = "done" THEN [IdleRun EXCEPT !.pc = "done"] ELSE rec

Init ==
  /\ present \in SUBSET AudioPaths
  /\ tags \in [AudioPaths -> FileKinds \cup {Unwritten}]
  /\ \A p \in AudioPaths : (tags[p] = Unwritten) <=> (p \notin present)
  /\ songs = {}
  /\ albums = {}
  /\ playlists = {}
  /\ playlistSongs = EmptyBag
  /\ run = [r \in Runs |-> IdleRun]
  /\ fsChanges = 0
  /\ memberships = 0
  /\ diskChanged = FALSE
  /\ unreadable = {}
  /\ UiInit

\* const defaultPlaylist = ... where(eq(playlists.id, 1)); the insert is
\* skipped when a row came back
FavouritesPresent(P) == \E p \in P : p.id = 1

(***************************************************************************)
(* initializeData(musicFolder, incremental) up to the first batch:         *)
(* the Favourites playlist, the snapshot of the stored paths, the walk.    *)
(***************************************************************************)
initializeData(r, musicFolder, incremental) ==
  /\ run[r].pc = "idle"
  /\ playlists' = IF FavouritesPresent(playlists) THEN playlists
                  ELSE playlists \cup
                         {[id |-> NextRowId(playlists), name |-> "Favourites",
                           description |-> "Songs liked by you."]}
  /\ run' = [[q \in Runs |-> Forgotten(run[q])] EXCEPT ![r] =
       [IdleRun EXCEPT
          !.pc = IF incremental THEN "shallow" ELSE "full",
          !.musicFolder = musicFolder,
          !.incremental = incremental,
          !.overlapped = ~NoRunActive,
          !.dbFilePaths = getAllFilePathsFromDb(songs),
          !.initialBatch = IF incremental
                           THEN scanImmediateDirectory(musicFolder, present)
                           ELSE <<>>,
          !.allFiles = IF incremental THEN <<>>
                       ELSE scanEntireLibrary(musicFolder, present),
          !.repeat = (SomeRunDone /\ ~diskChanged)]]
  /\ diskChanged' = FALSE
  /\ UNCHANGED <<tags, present, songs, albums, playlistSongs, fsChanges,
                 memberships>>
  /\ UNCHANGED <<unreadable, uiVars>>

\* the next file of the current batch goes through processBatch's loop body
ProcessFile(r) ==
  /\ run[r].pc \in {"shallow", "full"}
  /\ run[r].pc = "full" => run[r].i < Len(run[r].allFiles)
  /\ run[r].k <= Len(CurrentBatch(r))
  /\ LET res == processBatch(CurrentBatch(r)[run[r].k], run[r].dbFilePaths,
                             run[r].albumCache, songs, albums)
     IN  /\ songs' = res.songs
         /\ albums' = res.albums
         /\ run' = [run EXCEPT ![r].k = @ + 1,
                               ![r].albumCache = res.cache,
                               ![r].insSongs = @ + res.insSongs,
                               ![r].insAlbums = @ + res.insAlbums]
  /\ UNCHANGED <<tags, present, playlists, playlistSongs, fsChanges,
                 memberships, diskChanged>>
  /\ UNCHANGED <<unreadable, uiVars>>

\* processBatch(initialBatch) has resolved: the timer is set and
\* processLibrary, then initializeData, return
EndShallow(r) ==
  /\ run[r].pc = "shallow"
  /\ run[r].k > Len(run[r].initialBatch)
  /\ run' = [run EXCEPT ![r].pc = "timer", ![r].returned = TRUE]
  /\ UNCHANGED <<tags, present, songs, albums, playlists, playlistSongs,
                 fsChanges, memberships, diskChanged>>
  /\ UNCHANGED <<unreadable, uiVars>>

TimerArmedEarly(r) == run[r].pc \in {"shallow", "timer"}

\* the setTimeout of line 549 is registered after the await of line 546
TimerArmed(r) == run[r].pc = "timer"

\* let i = initialBatch.length
BackgroundStartIndex(r) == Len(run[r].initialBatch)

\* the timer callback: the full walk
BackgroundPass(r) ==
  /\ TimerArmed(r)
  /\ run' = [run EXCEPT
       ![r].pc = "full",
       ![r].allFiles = scanEntireLibrary(run[r].musicFolder, present),
       ![r].i = BackgroundStartIndex(r),
       ![r].k = 1,
       ![r].albumCache = EmptyCache]
  /\ UNCHANGED <<tags, present, songs, albums, playlists, playlistSongs,
                 fsChanges, memberships, diskChanged>>
  /\ UNCHANGED <<unreadable, uiVars>>

\* i += batchSize, with a fresh albumCache for the next processBatch call
NextBatch(r) ==
  /\ run[r].pc = "full"
  /\ run[r].i < Len(run[r].allFiles)
  /\ run[r].k > Len(CurrentBatch(r))
  /\ run' = [run EXCEPT ![r].i = @ + BatchSize(r), ![r].k = 1,
                        ![r].albumCache = EmptyCache]
  /\ UNCHANGED <<tags, present, songs, albums, playlists, playlistSongs,
                 fsChanges, memberships, diskChanged>>
  /\ UNCHANGED <<unreadable, uiVars>>

\* cleanupOrphanedRecords(allFiles): the songs to delete
CleanupSelect(r) ==
  /\ run[r].pc = "full"
  /\ run[r].i >= Len(run[r].allFiles)
  /\ run' = [run EXCEPT ![r].pc = "cleanup",
                        ![r].deletedFiles = OrphanedSongs(run[r].allFiles, songs),
                        ![r].d = 0]
  /\ UNCHANGED <<tags, present, songs, albums, playlists, playlistSongs,
                 fsChanges, memberships, diskChanged>>
  /\ UNCHANGED <<unreadable, uiVars>>

\* one transaction of the deletion loop
CleanupDeleteBatch(r) ==
  /\ run[r].pc = "cleanup"
  /\ run[r].d < Len(run[r].deletedFiles)
  /\ LET batch == Slice(run[r].deletedFiles, run[r].d,
                        run[r].d + CleanupBatchSize)
         ids   == {row.id : row \in Range(batch)}
         ps2   == RemoveMemberships(playlistSongs, ids)
         gone  == {s \in songs : s.id \in ids}
     IN  /\ playlistSongs' = ps2
         /\ songs' = songs \ gone
         /\ run' = [run EXCEPT
              ![r].d = @ + CleanupBatchSize,
              ![r].delSongs = @ + Cardinality(gone),
              ![r].delMemberships =
                 @ + BagCardinality(playlistSongs) - BagCardinality(ps2)]
  /\ UNCHANGED <<tags, present, albums, playlists, fsChanges, memberships,
                 diskChanged>>
  /\ UNCHANGED <<unreadable, uiVars>>

\* the albums left without songs go; the reconcile is over
CleanupAlbums(r) ==
  /\ run[r].pc = "cleanup"
  /\ run[r].d >= Len(run[r].deletedFiles)
  /\ LET empty == EmptyAlbums(albums, songs)
     IN  /\ albums' = albums \ empty
         /\ run' = [run EXCEPT ![r] =
              Finished([run[r] EXCEPT !.delAlbums = @ + Cardinality(empty)])]
  /\ UNCHANGED <<tags, present, songs, playlists, playlistSongs, fsChanges,
                 memberships, diskChanged>>
  /\ UNCHANGED <<unreadable, uiVars>>

(***************************************************************************)
(* The environment: the user's files and playlist                          *)
(***************************************************************************)
DeleteFile(p) ==
  /\ NoRunActive
  /\ SomeRunDone
  /\ fsChanges < MaxFsChanges
  /\ p \in present
  /\ present' = present \ {p}
  /\ fsChanges' = fsChanges + 1
  /\ diskChanged' = TRUE
  /\ UNCHANGED <<tags, songs, albums, playlists, playlistSongs, run,
                 memberships>>
  /\ UNCHANGED <<unreadable, uiVars>>

\* a file comes (back) to path p; kind is its content when it is new
AddFile(p, kind) ==
  /\ NoRunActive
  /\ SomeRunDone
  /\ fsChanges < MaxFsChanges
  /\ p \notin present
  /\ present' = present \cup {p}
  /\ tags' = IF tags[p] = Unwritten THEN [tags EXCEPT ![p] = kind] ELSE tags
  /\ fsChanges' = fsChanges + 1
  /\ diskChanged' = TRUE
  /\ UNCHANGED <<songs, albums, playlists, playlistSongs, run,
                 memberships>>
  /\ UNCHANGED <<unreadable, uiVars>>

NeverExists(row, ps) == FALSE

\* const checkIfExists = await db.query.playlistSongs.findFirst(...)
checkIfExists(row, ps) == BagIn(row, ps)

\* the message of the toast for what the request resolved to
ToastFor(resp) ==
  IF resp = TRUE THEN "Song added to playlist"
  ELSE "Song already exists in playlist"

\* the navbar's addSongToPlaylist(playlistId, songId): the request, the
\* store's addSongToPlaylist behind it and the toast for what it resolved to;
\* both ids are foreign keys
addSongToPlaylist(playlistId, songId) ==
  /\ \E p \in playlists : p.id = playlistId
  /\ \E s \in songs : s.id = songId
  /\ LET row == [playlistId |-> playlistId, songId |-> songId]
     IN  IF checkIfExists(row, playlistSongs)
         THEN /\ response' = FALSE
              /\ UNCHANGED <<playlistSongs, memberships>>
         ELSE /\ playlistSongs' = playlistSongs (+) SetToBag({row})
              /\ memberships' = memberships + 1
              /\ response' = TRUE
  /\ toast' = ToastFor(response')
  /\ UNCHANGED <<tags, present, songs, albums, playlists, run, fsChanges,
                 diskChanged, unreadable, now, store, songsPage, albumStore,
                 albumsPage, appVars>>

\* the user adds a song to Favourites, MaxMemberships times at most
AddToPlaylistMenu(s) ==
  /\ memberships < MaxMemberships
  /\ addSongToPlaylist(1, s)

\* one reconcile after the other: the start-up scan, then the rescans
Reconcile(r, incremental) ==
  /\ \A q \in Runs : q < r => run[q].pc = "done"
  /\ initializeData(r, MusicFolder, incremental)

Next ==
  \/ \E r \in Runs, incremental \in BOOLEAN : Reconcile(r, incremental)
  \/ \E r \in Runs : ProcessFile(r)
  \/ \E r \in Runs : EndShallow(r)
  \/ \E r \in Runs : BackgroundPass(r)
  \/ \E r \in Runs : NextBatch(r)
  \/ \E r \in Runs : CleanupSelect(r)
  \/ \E r \in Runs : CleanupDeleteBatch(r)
  \/ \E r \in Runs : CleanupAlbums(r)
  \/ \E p \in AudioPaths : DeleteFile(p)
  \/ \E p \in AudioPaths, kind \in FileKinds : AddFile(p, kind)
  \/ \E s \in {row.id : row \in songs} : AddToPlaylistMenu(s)

Spec == Init /\ [][Next]_vars

(***************************************************************************)
(* Failures: a statement of processAudioFile or of cleanupOrphanedRecords  *)
(* throws (parseFile rejects on a file it read before, the store refuses   *)
(* a statement).                                                           *)
(***************************************************************************)
FailureStages == {"parseFile", "insert"}

\* What processAudioFile(file, albumCache) leaves behind when it throws:
\* at parseFile nothing is written yet; at the insert into songs the album
\* row and the albumCache entry are already written.
processAudioFileThrows(file, cache, S, A, stage) ==
  LET res == processAudioFile(file, cache, S, A)
  IN  IF stage = "parseFile"
      THEN [songs |-> S, albums |-> A, cache |-> cache, insAlbums |-> 0]
      ELSE [songs |-> S, albums |-> res.albums, cache |-> res.cache,
            insAlbums |-> res.insAlbums]

AbortBatch(k, len) == len + 1

\* the catch of line 781 (and of line 662) ends the iteration of the for
\* loop of processBatch: the next file is next
AfterFailure(k, len) == k + 1

\* the file the run is about to process throws at the given stage
FileFails(r, stage) ==
  /\ run[r].pc \in {"shallow", "full"}
  /\ run[r].pc = "full" => run[r].i < Len(run[r].allFiles)
  /\ run[r].k <= Len(CurrentBatch(r))
  /\ Cardinality(run[r].failed) < MaxFailures
  /\ LET file == CurrentBatch(r)[run[r].k]
         res  == processAudioFileThrows(file, run[r].albumCache, songs,
                                        albums, stage)
     IN  /\ file \notin run[r].dbFilePaths
         /\ stage = "insert" => tags[file].ok /\ HasTitle(tags[file])
         /\ songs' = res.songs
         /\ albums' = res.albums
         /\ run' = [run EXCEPT
              ![r].k = AfterFailure(@, Len(CurrentBatch(r))),
              ![r].albumCache = res.cache,
              ![r].insAlbums = @ + res.insAlbums,
              ![r].failed = @ \cup {file}]
  /\ UNCHANGED <<tags, present, playlists, playlistSongs, fsChanges,
                 memberships, diskChanged>>
  /\ UNCHANGED <<unreadable, uiVars>>

\* A statement of cleanupOrphanedRecords throws. Called from the body of
\* processLibrary (non-incremental) the rejection reaches the catch of
\* initializeData, which returns false; called from the timer callback of
\* line 549 nothing awaits or catches the callback's promise.
CleanupFails(r) ==
  /\ \/ run[r].pc = "full" /\ run[r].i >= Len(run[r].allFiles)
     \/ run[r].pc = "cleanup"
  /\ run' = [run EXCEPT
       ![r].pc = IF run[r].incremental THEN "rejected" ELSE "failed",
       ![r].returned = TRUE]
  /\ UNCHANGED <<tags, present, songs, albums, playlists, playlistSongs,
                 fsChanges, memberships, diskChanged>>
  /\ UNCHANGED <<unreadable, uiVars>>

\* the reconciles of Spec and the removal of files between them, with
\* failures
FaultNext ==
  \/ \E r \in Runs, incremental \in BOOLEAN : Reconcile(r, incremental)
  \/ \E r \in Runs : ProcessFile(r)
  \/ \E r \in Runs : EndShallow(r)
  \/ \E r \in Runs : BackgroundPass(r)
  \/ \E r \in Runs : NextBatch(r)
  \/ \E r \in Runs : CleanupSelect(r)
  \/ \E r \in Runs : CleanupDeleteBatch(r)
  \/ \E r \in Runs : CleanupAlbums(r)
  \/ \E p \in AudioPaths : DeleteFile(p)
  \/ \E r \in Runs, stage \in FailureStages : FileFails(r, stage)
  \/ \E r \in Runs : CleanupFails(r)

FaultSpec == Init /\ [][FaultNext]_vars

(***************************************************************************)
(* Directories that cannot be read: between two reconciles a directory     *)
(* below the music folder loses or regains its read permission.            *)
(***************************************************************************)
SetAccess(d) ==
  /\ NoRunActive
  /\ SomeRunDone
  /\ fsChanges < MaxFsChanges
  /\ unreadable' = IF d \in unreadable THEN unreadable \ {d}
                   ELSE unreadable \cup {d}
  /\ fsChanges' = fsChanges + 1
  /\ diskChanged' = TRUE
  /\ UNCHANGED <<tags, present, songs, albums, playlists, playlistSongs, run,
                 memberships>>
  /\ UNCHANGED uiVars

\* the reconciles of Spec over a disk whose files stay and whose
\* directories change access
UnreadableNext ==
  \/ \E r \in Runs, incremental \in BOOLEAN : Reconcile(r, incremental)
  \/ \E r \in Runs : ProcessFile(r)
  \/ \E r \in Runs : EndShallow(r)
  \/ \E r \in Runs : BackgroundPass(r)
  \/ \E r \in Runs : NextBatch(r)
  \/ \E r \in Runs : CleanupSelect(r)
  \/ \E r \in Runs : CleanupDeleteBatch(r)
  \/ \E r \in Runs : CleanupAlbums(r)
  \/ \E s \in {row.id : row \in songs} : AddToPlaylistMenu(s)
  \/ \E d \in Directories \ {MusicFolder} : SetAccess(d)

UnreadableSpec == Init /\ [][UnreadableNext]_vars

\* a file parseFile reads, with title, album and artist tags
PlainTrack ==
  [ok |-> TRUE, title |-> "T", album |-> "A", artist |-> "C", albumartist |-> ""]

\* any set of files on disk, each a plain track
PlainInit ==
  /\ Init
  /\ \A p \in present : tags[p] = PlainTrack

(***************************************************************************)
(* Overlapping reconciles: nothing in rescanLibrary, scanLibrary or        *)
(* initializeLibrary waits for a reconcile that is still running.          *)
(***************************************************************************)
\* the folders the user may pick in the dialog of scanLibrary
MusicFolders == {"M", "M/a"}

\* scanLibrary (non-incremental, the folder of the dialog) or
\* initializeLibrary (incremental); the calls start in the order of Runs
ScanRequest(r, musicFolder, incremental) ==
  /\ \A q \in Runs : q < r => run[q].pc # "idle"
  /\ initializeData(r, musicFolder, incremental)

OverlapNext ==
  \/ \E r \in Runs, musicFolder \in MusicFolders, incremental \in BOOLEAN :
        ScanRequest(r, musicFolder, incremental)
  \/ \E r \in Runs : ProcessFile(r)
  \/ \E r \in Runs : EndShallow(r)
  \/ \E r \in Runs : BackgroundPass(r)
  \/ \E r \in Runs : NextBatch(r)
  \/ \E r \in Runs : CleanupSelect(r)
  \/ \E r \in Runs : CleanupDeleteBatch(r)
  \/ \E r \in Runs : CleanupAlbums(r)

OverlapSpec == PlainInit /\ [][OverlapNext]_vars

(***************************************************************************)
(* Playlists: createPlaylist, updatePlaylist and addSongToPlaylist beside  *)
(* the reconciles.                                                         *)
(***************************************************************************)
\* the names the user gives to playlists
PlaylistNames == {"Mix", "Favourites"}

\* an initializeData call has returned true
HasReturnedTrue == \E r \in Runs : run[r].returned \/ run[r].pc = "done"

AnyTime == TRUE

\* The window shows a page with the navbar and the playlist dialogs: with
\* no settings row it loads /setup, which has neither, and goes to /home
\* when scanLibrary, hence initializeData, has returned.
SetupDone == HasReturnedTrue

\* createPlaylist(data) with data.description and data.cover absent
createPlaylist(name) ==
  /\ SetupDone
  /\ Cardinality(playlists) < MaxPlaylists
  /\ playlists' = playlists \cup
       {[id |-> NextRowId(playlists), name |-> name,
         description |-> "An epic playlist created by you."]}
  /\ UNCHANGED <<tags, present, songs, albums, playlistSongs, run,
                 fsChanges, memberships, diskChanged>>
  /\ UNCHANGED <<unreadable, uiVars>>

\* updatePlaylist({id, data}) from the Edit dialog, which the playlist page
\* offers for every playlist but id 1
updatePlaylist(id, name) ==
  /\ SetupDone
  /\ id # 1
  /\ \E row \in playlists :
       /\ row.id = id
       /\ playlists' = (playlists \ {row}) \cup
            {[row EXCEPT !.name = name,
                         !.description = "An epic playlist created by you."]}
  /\ UNCHANGED <<tags, present, songs, albums, playlistSongs, run,
                 fsChanges, memberships, diskChanged>>
  /\ UNCHANGED <<unreadable, uiVars>>

\* the user adds a song to a playlist: MaxMemberships rows at most, and
\* any number of requests for a row that is there
AddToPlaylistRequest(playlistId, songId) ==
  /\ \/ memberships < MaxMemberships
     \/ BagIn([playlistId |-> playlistId, songId |-> songId], playlistSongs)
  /\ addSongToPlaylist(playlistId, songId)

PlaylistNext ==
  \/ \E r \in Runs, incremental \in BOOLEAN : Reconcile(r, incremental)
  \/ \E r \in Runs : ProcessFile(r)
  \/ \E r \in Runs : EndShallow(r)
  \/ \E r \in Runs : BackgroundPass(r)
  \/ \E r \in Runs : NextBatch(r)
  \/ \E r \in Runs : CleanupSelect(r)
  \/ \E r \in Runs : CleanupDeleteBatch(r)
  \/ \E r \in Runs : CleanupAlbums(r)
  \/ \E p \in AudioPaths : DeleteFile(p)
  \/ \E name \in PlaylistNames : createPlaylist(name)
  \/ \E id \in 1..MaxPlaylists, name \in PlaylistNames :
        updatePlaylist(id, name)
  \/ \E playlistId \in {row.id : row \in playlists},
        songId \in {row.id : row \in songs} :
        AddToPlaylistRequest(playlistId, songId)

\* one plain track in the music folder
OneFileInit ==
  /\ Init
  /\ present = {"M/m.ogg"}
  /\ tags["M/m.ogg"] = PlainTrack

PlaylistSpec == OneFileInit /\ [][PlaylistNext]_vars

(***************************************************************************)
(* The songs page and the albums page over a library that is indexed:      *)
(* lib/songCache.ts, lib/albumCache.ts, pages/songs.tsx, pages/albums.tsx. *)
(* Times are in minutes. Left out: the search box (searchTerm stays ""),   *)
(* the sortBy select (it stays "name"), the reset events, localStorage.    *)
(* One page is mounted at a time and is left when its requests have        *)
(* resolved.                                                               *)
(***************************************************************************)
\* const CACHE_TTL = 5 * 60 * 1000 milliseconds
CACHE_TTL == 5

\* the order String.prototype.localeCompare puts the names of the model in
Collation == <<"A", "B", "T", "U">>

Rank(name) == CHOOSE n \in 1..Len(Collation) : Collation[n] = name

\* a.name.localeCompare(b.name)
localeCompare(a, b) ==
  IF a = b THEN 0 ELSE IF Rank(a) < Rank(b) THEN 0 - 1 ELSE 1

Unsigned(comparison, sortOrder) == comparison

\* return sortOrder === "asc" ? comparison : -comparison
Signed(comparison, sortOrder) ==
  IF sortOrder = "asc" THEN comparison ELSE 0 - comparison

\* the comparator of sortSongs and of sortAlbums for sortBy "name"
Compare(a, b, sortOrder) == Signed(localeCompare(a.name, b.name), sortOrder)

\* [...list].sort(comparator): Array.prototype.sort is stable, so an item
\* goes behind the items that compare equal to it and came before it
RECURSIVE SortByName(_, _)
SortByName(list, sortOrder) ==
  IF list = <<>> THEN <<>>
  ELSE LET x      == list[Len(list)]
           sorted == SortByName(SubSeq(list, 1, Len(list) - 1), sortOrder)
           k      == Cardinality({n \in 1..Len(sorted) :
                                    Compare(sorted[n], x, sortOrder) <= 0})
       IN  SubSeq(sorted, 1, k) \o <<x>> \o SubSeq(sorted, k + 1, Len(sorted))

sortSongs(list, sortOrder) == SortByName(list, sortOrder)

sortAlbums(list, sortOrder) == SortByName(list, sortOrder)

\* the orders a query without a deterministic ORDER BY may return rows in
Orderings(rows) ==
  {seq \in [1..Cardinality(rows) -> rows] :
     \A m, n \in 1..Cardinality(rows) : m # n => seq[m] # seq[n]}

\* getSongs(page): ORDER BY name, LIMIT limit OFFSET (page - 1) * limit;
\* rows of equal name come in rowid order
getSongs(page) ==
  Slice(SortByName(RowsById(songs), "asc"),
        (page - 1) * SongsPerPage, page * SongsPerPage)

\* getAlbums(page) and getAlbumsWithDuration(page): ORDER BY name
getAlbums(page) ==
  Slice(SortByName(RowsById(albums), "asc"),
        (page - 1) * AlbumsPerPage, page * AlbumsPerPage)

IsStaleNever(lastFetchTime) == FALSE

\* isStale(): Date.now() - this.store.lastFetchTime > CACHE_TTL
isStale(lastFetchTime) == now - lastFetchTime > CACHE_TTL

\* the items of newItems whose id is not in existing
FilterNewIds(newItems, existing) ==
  SelectSeq(newItems,
            LAMBDA x : \A n \in 1..Len(existing) : existing[n].id # x.id)

\* addSongs(newSongs) and addAlbums(newAlbums)
addItems(cache, newItems) ==
  [cache EXCEPT !.all = @ \o FilterNewIds(newItems, @),
                !.lastFetchTime = now]

\* what a page function closes over when it is called
Closure(pg) ==
  [items |-> pg.items, page |-> pg.page, sortOrder |-> pg.sortOrder,
   searchTerm |-> pg.searchTerm]

NoPageMounted == ~songsPage.mounted /\ ~albumsPage.mounted

\* searchSongs(query): the songs whose name, artist or album name contains
\* the query, whatever the case of the letters, ORDER BY name. The names of
\* this library are single letters, so containing the query is being it.
searchSongs(query) ==
  LET Lower(s) == CASE s = "T" -> "t" [] s = "U" -> "u" [] s = "A" -> "a"
                    [] s = "B" -> "b" [] s = "C" -> "c" [] OTHER -> s
      Like(value) == Lower(value) = Lower(query)
      Matches(song) ==
        \/ Like(song.name)
        \/ Like(song.artist)
        \/ \E a \in albums : a.id = song.albumId /\ Like(a.name)
  IN  IF query = "" THEN <<>>
      ELSE SortByName(SelectSeq(RowsById(songs), Matches), "asc")

\* handleSearch(term) called in a page pg with cache st: an empty term
\* shows the loaded songs, sorted; another term sets the timer that asks
\* searchSongs, in place of the timer that was pending.
handleSearch(term, pg, st) ==
  IF term = ""
  THEN LET sortedSongs == sortSongs(pg.items, pg.sortOrder)
       IN  [page  |-> [pg EXCEPT !.filtered = sortedSongs,
                                 !.searching = <<>>],
            store |-> [st EXCEPT !.filtered = sortedSongs,
                                 !.searchResults = <<>>,
                                 !.lastSearchQuery = ""]]
  ELSE [page  |-> [pg EXCEPT !.searching = <<Closure(pg)>>],
        store |-> st]

\* AllSongs mounts: its state comes from the cache; the load effect calls
\* loadSongs() when the cache is new or stale; the search effect sorts what
\* is loaded; the sort effect asks for all songs.
MountSongs ==
  /\ NoPageMounted
  /\ LET refresh == ~store.isInitialized \/ isStale(store.lastFetchTime)
         loads   == refresh /\ store.hasMore
         sorted  == sortSongs(store.all, store.sortOrder)
         pg      == [Unmounted EXCEPT
                       !.mounted = TRUE, !.items = store.all,
                       !.filtered = sorted, !.sortOrder = store.sortOrder,
                       !.page = store.page, !.hasMore = store.hasMore,
                       !.shown = Len(store.all),
                       \* searchTerm is "": the sort effect calls getAllSongs
                       !.fetched = TRUE,
                       !.age = now - store.lastFetchTime]
     IN  /\ songsPage' = [pg EXCEPT
              !.loading = IF loads THEN <<Closure(pg)>> ELSE <<>>,
              !.sorting = <<Closure(pg)>>]
         /\ store' = [store EXCEPT !.isInitialized = TRUE,
                                   !.filtered = sorted]
  /\ UNCHANGED <<tags, present, songs, albums, playlists, playlistSongs, run,
                 fsChanges, memberships, diskChanged, unreadable>>
  /\ UNCHANGED <<appVars, response, toast, now, albumStore, albumsPage>>

\* getSongs(page) resolves in loadSongs(); the search effect then sorts the
\* new list
ResolveLoadSongs ==
  /\ songsPage.loading # <<>>
  /\ LET c        == songsPage.loading[1]
         newSongs == getSongs(c.page)
         updated  == c.items \o newSongs
         sorted   == sortSongs(updated, songsPage.sortOrder)
     IN  IF Len(newSongs) = 0
         THEN /\ songsPage' = [songsPage EXCEPT !.hasMore = FALSE,
                                                !.loading = <<>>]
              /\ store' = [store EXCEPT !.page = c.page, !.hasMore = FALSE]
         ELSE LET pg == [songsPage EXCEPT
                           !.items = updated, !.page = c.page + 1,
                           !.filtered = IF c.searchTerm = "" THEN sorted
                                        ELSE @,
                           !.loading = <<>>]
                  st == [addItems(store, newSongs) EXCEPT
                           !.filtered = IF c.searchTerm = "" THEN sorted
                                        ELSE @,
                           !.page = c.page + 1, !.hasMore = TRUE]
                  \* songs has changed: the search effect runs
                  after == handleSearch(pg.searchTerm, pg, st)
              IN  /\ songsPage' = after.page
                  /\ store' = after.store
  /\ UNCHANGED <<tags, present, songs, albums, playlists, playlistSongs, run,
                 fsChanges, memberships, diskChanged, unreadable>>
  /\ UNCHANGED <<appVars, response, toast, now, albumStore, albumsPage>>

\* getAllSongs resolves in the sort effect: ORDER BY RANDOM()
ResolveSortSongs ==
  /\ songsPage.sorting # <<>>
  /\ \E allSongs \in Orderings(songs) :
       LET c == songsPage.sorting[1]
       IN  IF Len(allSongs) > 0
           THEN LET sorted == sortSongs(allSongs, songsPage.sortOrder)
                    pg == [songsPage EXCEPT
                             !.items = allSongs, !.filtered = sorted,
                             !.sorting = <<>>]
                    st == [store EXCEPT
                             !.all = allSongs, !.lastFetchTime = now,
                             !.filtered = sorted]
                    \* songs has changed: the search effect runs
                    after == handleSearch(pg.searchTerm, pg, st)
                IN  /\ songsPage' = after.page
                    /\ store' = after.store
           ELSE LET sorted == sortSongs(c.items, c.sortOrder)
                IN  /\ songsPage' = [songsPage EXCEPT
                         !.filtered = sorted, !.sorting = <<>>]
                    /\ store' = [store EXCEPT !.filtered = sorted]
  /\ UNCHANGED <<tags, present, songs, albums, playlists, playlistSongs, run,
                 fsChanges, memberships, diskChanged, unreadable>>
  /\ UNCHANGED <<appVars, response, toast, now, albumStore, albumsPage>>

\* the list is scrolled to its end: handleLoadMore calls loadSongs()
LoadMoreSongs ==
  /\ songsPage.mounted
  /\ songsPage.loading = <<>>
  /\ songsPage.hasMore
  /\ songsPage.searchTerm = ""
  /\ Len(songsPage.filtered) > 0
  /\ songsPage' = [songsPage EXCEPT !.loading = <<Closure(songsPage)>>]
  /\ UNCHANGED <<tags, present, songs, albums, playlists, playlistSongs, run,
                 fsChanges, memberships, diskChanged, unreadable>>
  /\ UNCHANGED <<appVars, response, toast, now, store, albumStore, albumsPage>>

\* toggleSortOrder: the search effect sorts the loaded songs the new way,
\* the sort effect stores the order and asks for all songs
ToggleSortOrder ==
  /\ songsPage.mounted
  /\ songsPage.sorting = <<>>
  /\ LET order  == IF songsPage.sortOrder = "asc" THEN "desc" ELSE "asc"
         sorted == sortSongs(songsPage.items, order)
         pg     == [songsPage EXCEPT !.sortOrder = order, !.filtered = sorted]
     IN  /\ songsPage' = [pg EXCEPT !.sorting = <<Closure(pg)>>]
         /\ store' = [store EXCEPT !.sortOrder = order, !.filtered = sorted]
  /\ UNCHANGED <<tags, present, songs, albums, playlists, playlistSongs, run,
                 fsChanges, memberships, diskChanged, unreadable>>
  /\ UNCHANGED <<appVars, response, toast, now, albumStore, albumsPage>>

\* the user goes to another page
UnmountSongs ==
  /\ songsPage.mounted
  /\ songsPage.loading = <<>>
  /\ songsPage.sorting = <<>>
  /\ songsPage' = Unmounted
  /\ UNCHANGED <<tags, present, songs, albums, playlists, playlistSongs, run,
                 fsChanges, memberships, diskChanged, unreadable>>
  /\ UNCHANGED <<appVars, response, toast, now, store, albumStore, albumsPage>>

\* the user types term into the search box: setSearchTerm(term), and the
\* search effect calls handleSearch(term)
SetSearchTerm(term) ==
  /\ songsPage.mounted
  /\ term # songsPage.searchTerm
  /\ LET after == handleSearch(term, [songsPage EXCEPT !.searchTerm = term],
                               store)
     IN  /\ songsPage' = after.page
         /\ store' = after.store
  /\ UNCHANGED <<tags, present, songs, albums, playlists, playlistSongs, run,
                 fsChanges, memberships, diskChanged, unreadable>>
  /\ UNCHANGED <<appVars, response, toast, now, albumStore, albumsPage>>

\* the timer of handleSearch has fired and searchSongs(term) resolves; songs
\* is the list of the render that set the timer
ResolveSearch ==
  /\ songsPage.searching # <<>>
  /\ LET c             == songsPage.searching[1]
         results       == searchSongs(c.searchTerm)
         sortedResults == sortSongs(results, c.sortOrder)
         longer        == Len(results) > Len(c.items)
         pg == [songsPage EXCEPT
                  !.filtered = sortedResults, !.searching = <<>>,
                  !.items = IF longer THEN results ELSE @]
         st == [store EXCEPT
                  !.searchResults = sortedResults,
                  !.lastSearchQuery = c.searchTerm,
                  !.all = IF longer THEN results ELSE @,
                  !.lastFetchTime = IF longer THEN now ELSE @]
         \* when songs has changed the search effect runs
         after == IF longer THEN handleSearch(pg.searchTerm, pg, st)
                  ELSE [page |-> pg, store |-> st]
     IN  /\ songsPage' = after.page
         /\ store' = after.store
  /\ UNCHANGED <<tags, present, songs, albums, playlists, playlistSongs, run,
                 fsChanges, memberships, diskChanged, unreadable>>
  /\ UNCHANGED <<appVars, response, toast, now, albumStore, albumsPage>>

\* Albums mounts: the load effect calls loadAlbums() when the cache is new
\* or stale and else shows the cache; the search effect sorts what is
\* loaded; the sort effect fetches every page when the cache is empty or
\* stale and else sorts the cached albums.
MountAlbums ==
  /\ NoPageMounted
  /\ LET stale    == isStale(albumStore.lastFetchTime)
         refresh  == ~albumStore.isInitialized \/ stale
         loads    == refresh /\ albumStore.hasMore
         fetchAll == Len(albumStore.all) = 0 \/ stale
         sorted   == sortAlbums(albumStore.all, albumStore.sortOrder)
         pg       == [Unmounted EXCEPT
                        !.mounted = TRUE, !.items = albumStore.all,
                        !.filtered = sorted,
                        !.sortOrder = albumStore.sortOrder,
                        !.page = albumStore.page,
                        !.hasMore = albumStore.hasMore,
                        !.shown = Len(albumStore.all),
                        !.fetched = (loads \/ fetchAll),
                        !.age = now - albumStore.lastFetchTime]
     IN  /\ albumsPage' = [pg EXCEPT
              !.loading = IF loads THEN <<Closure(pg)>> ELSE <<>>,
              !.sorting = IF fetchAll THEN <<Closure(pg)>> ELSE <<>>]
         /\ albumStore' = [albumStore EXCEPT !.isInitialized = TRUE,
                                             !.filtered = sorted]
  /\ UNCHANGED <<tags, present, songs, albums, playlists, playlistSongs, run,
                 fsChanges, memberships, diskChanged, unreadable>>
  /\ UNCHANGED <<appVars, response, toast, now, store, songsPage>>

\* getAlbumsWithDuration(page) resolves in loadAlbums(): only the albums
\* whose id is not loaded yet are added
ResolveLoadAlbums ==
  /\ albumsPage.loading # <<>>
  /\ LET c         == albumsPage.loading[1]
         newAlbums == getAlbums(c.page)
         unique    == FilterNewIds(newAlbums, c.items)
         updated   == c.items \o unique
         sorted    == sortAlbums(updated, albumsPage.sortOrder)
     IN  IF Len(newAlbums) = 0
         THEN /\ albumsPage' = [albumsPage EXCEPT !.hasMore = FALSE,
                                                  !.loading = <<>>]
              /\ albumStore' = [albumStore EXCEPT !.page = c.page,
                                                  !.hasMore = FALSE]
         ELSE IF Len(unique) > 0
         THEN /\ albumsPage' = [albumsPage EXCEPT
                   !.items = updated, !.page = c.page + 1,
                   !.filtered = sorted, !.loading = <<>>]
              /\ albumStore' = [addItems(albumStore, unique) EXCEPT
                   !.filtered = sorted, !.page = c.page + 1,
                   !.hasMore = TRUE]
         ELSE /\ albumsPage' = [albumsPage EXCEPT !.page = c.page + 1,
                                                  !.loading = <<>>]
              /\ albumStore' = [albumStore EXCEPT !.page = c.page + 1,
                                                  !.hasMore = TRUE]
  /\ UNCHANGED <<tags, present, songs, albums, playlists, playlistSongs, run,
                 fsChanges, memberships, diskChanged, unreadable>>
  /\ UNCHANGED <<appVars, response, toast, now, store, songsPage>>

\* the getAlbums(tempPage) loop of fetchAndSortAllAlbums has resolved
ResolveFetchAllAlbums ==
  /\ albumsPage.sorting # <<>>
  /\ LET c         == albumsPage.sorting[1]
         fetched   == SortByName(RowsById(albums), "asc")
         allAlbums == IF Len(fetched) > 0 THEN fetched ELSE c.items
         sorted    == sortAlbums(allAlbums, c.sortOrder)
     IN  /\ albumsPage' = [albumsPage EXCEPT
              !.items = IF Len(allAlbums) > 0 THEN allAlbums ELSE @,
              !.filtered = sorted, !.sorting = <<>>]
         /\ albumStore' = [albumStore EXCEPT
              !.all = IF Len(fetched) > 0 THEN fetched ELSE @,
              !.lastFetchTime = IF Len(fetched) > 0 THEN now ELSE @,
              !.filtered = sorted]
  /\ UNCHANGED <<tags, present, songs, albums, playlists, playlistSongs, run,
                 fsChanges, memberships, diskChanged, unreadable>>
  /\ UNCHANGED <<appVars, response, toast, now, store, songsPage>>

\* the grid is scrolled to its end: loadMoreAlbums calls loadAlbums()
LoadMoreAlbums ==
  /\ albumsPage.mounted
  /\ albumsPage.loading = <<>>
  /\ albumsPage.hasMore
  /\ albumsPage' = [albumsPage EXCEPT !.loading = <<Closure(albumsPage)>>]
  /\ UNCHANGED <<tags, present, songs, albums, playlists, playlistSongs, run,
                 fsChanges, memberships, diskChanged, unreadable>>
  /\ UNCHANGED <<appVars, response, toast, now, store, songsPage, albumStore>>

UnmountAlbums ==
  /\ albumsPage.mounted
  /\ albumsPage.loading = <<>>
  /\ albumsPage.sorting = <<>>
  /\ albumsPage' = Unmounted
  /\ UNCHANGED <<tags, present, songs, albums, playlists, playlistSongs, run,
                 fsChanges, memberships, diskChanged, unreadable>>
  /\ UNCHANGED <<appVars, response, toast, now, store, songsPage, albumStore>>

\* time passes while no page is mounted
Elapse(minutes) ==
  /\ NoPageMounted
  /\ now + minutes <= MaxClock
  /\ now' = now + minutes
  /\ UNCHANGED <<tags, present, songs, albums, playlists, playlistSongs, run,
                 fsChanges, memberships, diskChanged, unreadable>>
  /\ UNCHANGED <<appVars, response, toast, store, songsPage, albumStore, albumsPage>>

\* the titles of the tracks of the library of the pages
LibraryTitles == {"T", "U"}

\* the album tag of the track at a path
AlbumOf(path) == IF path = "M/a/d/x.mp3" THEN "B" ELSE "A"

\* the rows processAudioFile leaves when it is given files[n], files[n+1], ...
RECURSIVE Indexed(_, _, _, _)
Indexed(files, n, S, A) ==
  IF n > Len(files) THEN [songs |-> S, albums |-> A]
  ELSE LET done == processAudioFile(files[n], EmptyCache, S, A)
       IN  Indexed(files, n + 1, done.songs, done.albums)

\* A library of the titled tracks at the paths of files, as a reconcile of
\* the music folder has indexed it, and a renderer that has shown no page.
LibraryInit(files) ==
  /\ present = files
  /\ unreadable = {}
  /\ tags \in [AudioPaths ->
                 {Unwritten} \cup
                 {[PlainTrack EXCEPT !.title = t, !.album = a] :
                    t \in LibraryTitles, a \in {"A", "B"}}]
  /\ \A p \in AudioPaths : (tags[p] = Unwritten) <=> (p \notin files)
  /\ \A p \in files : tags[p].album = AlbumOf(p)
  /\ songs = Indexed(scanEntireLibrary(MusicFolder, files), 1, {}, {}).songs
  /\ albums = Indexed(scanEntireLibrary(MusicFolder, files), 1, {}, {}).albums
  /\ playlists = {[id |-> 1, name |-> "Favourites",
                   description |-> "Songs liked by you."]}
  /\ playlistSongs = EmptyBag
  /\ run = [r \in Runs |-> IF r = 1 THEN [IdleRun EXCEPT !.pc = "done"]
                            ELSE IdleRun]
  /\ fsChanges = 0
  /\ memberships = 0
  /\ diskChanged = FALSE
  /\ UiInit

\* the songs page alone: mounts, page loads, sort toggles
SongsPageNext ==
  \/ MountSongs
  \/ ResolveLoadSongs
  \/ ResolveSortSongs
  \/ LoadMoreSongs
  \/ ToggleSortOrder
  \/ UnmountSongs

SongsPageSpec == LibraryInit(AudioPaths) /\ [][SongsPageNext]_vars

\* the songs page with its search box: one mount, page loads, searches
SearchNext ==
  \/ MountSongs
  \/ ResolveLoadSongs
  \/ ResolveSortSongs
  \/ LoadMoreSongs
  \/ \E term \in {"", "t", "c", "z"} : SetSearchTerm(term)
  \/ ResolveSearch

SearchSpec == LibraryInit(AudioPaths) /\ [][SearchNext]_vars

\* both pages, visited in turn while time passes, over two tracks of two
\* albums
CacheNext ==
  \/ MountSongs
  \/ ResolveLoadSongs
  \/ ResolveSortSongs
  \/ LoadMoreSongs
  \/ UnmountSongs
  \/ MountAlbums
  \/ ResolveLoadAlbums
  \/ ResolveFetchAllAlbums
  \/ LoadMoreAlbums
  \/ UnmountAlbums
  \/ \E minutes \in {1, CACHE_TTL} : Elapse(minutes)

CacheSpec == LibraryInit({"M/a/d/x.mp3", "M/m.ogg"}) /\ [][CacheNext]_vars

(***************************************************************************)
(* addSongToPlaylist, removeSongFromPlaylist and addToFavourites step by   *)
(* step. Every await of these handlers is on a drizzle query of the        *)
(* synchronous better-sqlite3 driver (connectDB.ts line 6): the query runs *)
(* when the promise job calls then(), and the jobs of one ipcMain message  *)
(* all run before the next message is dispatched.                          *)
(***************************************************************************)
MembershipOps == {"addSongToPlaylist", "removeSongFromPlaylist",
                  "addToFavourites"}

NeverPending == TRUE

\* no handler is between two awaits
MicrotasksDrained == \A c \in Calls : calls[c].pc \in {"idle", "done"}

\* .delete(playlistSongs).where(and(eq(playlistId), eq(songId)))
DeleteMemberships(row, ps) == [x \in DOMAIN ps \ {row} |-> ps[x]]

\* ipcMain dispatches the request: the handler runs up to its first await
DispatchMembership(c, op, playlistId, songId) ==
  /\ calls[c].pc = "idle"
  /\ \A q \in Calls : q < c => calls[q].pc # "idle"
  /\ MicrotasksDrained
  /\ op = "addToFavourites" => playlistId = 1
  /\ calls' = [calls EXCEPT ![c] =
       [op |-> op, playlistId |-> playlistId, songId |-> songId,
        pc |-> IF op = "removeSongFromPlaylist" THEN "write" ELSE "check",
        exists |-> FALSE]]
  /\ UNCHANGED <<tags, present, songs, albums, playlists, playlistSongs, run,
                 fsChanges, memberships, diskChanged, unreadable>>
  /\ UNCHANGED <<response, toast, now, store, songsPage, albumStore,
                 albumsPage, rescan, dataCache, scrobbler, player>>

\* the select of addToFavourites, the findFirst of addSongToPlaylist;
\* if (checkIfExists) return false
CheckMembership(c) ==
  /\ calls[c].pc = "check"
  /\ LET row   == [playlistId |-> calls[c].playlistId,
                   songId |-> calls[c].songId]
         found == checkIfExists(row, playlistSongs)
     IN  calls' = [calls EXCEPT
           ![c].exists = found,
           ![c].pc = IF calls[c].op = "addSongToPlaylist" /\ found
                     THEN "done" ELSE "write"]
  /\ UNCHANGED <<tags, present, songs, albums, playlists, playlistSongs, run,
                 fsChanges, memberships, diskChanged, unreadable>>
  /\ UNCHANGED <<response, toast, now, store, songsPage, albumStore,
                 albumsPage, rescan, dataCache, scrobbler, player>>

\* the insert or the delete the handler ends with
WriteMembership(c) ==
  /\ calls[c].pc = "write"
  /\ LET row == [playlistId |-> calls[c].playlistId,
                 songId |-> calls[c].songId]
     IN  playlistSongs' =
           IF \/ calls[c].op = "removeSongFromPlaylist"
              \/ calls[c].op = "addToFavourites" /\ calls[c].exists
           THEN DeleteMemberships(row, playlistSongs)
           ELSE playlistSongs (+) SetToBag({row})
  /\ calls' = [calls EXCEPT ![c].pc = "done"]
  /\ UNCHANGED <<tags, present, songs, albums, playlists, run,
                 fsChanges, memberships, diskChanged, unreadable>>
  /\ UNCHANGED <<response, toast, now, store, songsPage, albumStore,
                 albumsPage, rescan, dataCache, scrobbler, player>>

MembershipNext ==
  \/ \E c \in Calls, op \in MembershipOps,
        playlistId \in {row.id : row \in playlists},
        songId \in {row.id : row \in songs} :
        DispatchMembership(c, op, playlistId, songId)
  \/ \E c \in Calls : CheckMembership(c)
  \/ \E c \in Calls : WriteMembership(c)

MembershipSpec ==
  LibraryInit({"M/a/d/x.mp3", "M/m.ogg"}) /\ [][MembershipNext]_vars

(***************************************************************************)
(* The settings page's "rescan" button: rescanLibrary of settings.tsx, the *)
(* rescanLibrary handler and initializeLibrary of background.ts.           *)
(***************************************************************************)
\* the initializeData call that the timer of initializeLibrary makes: the
\* start-up scan was call 1
RescanRun == 2

\* rescanLibrary(): setMusicLoading(true); window.ipc.invoke("rescanLibrary")
RescanRequest ==
  /\ rescan = "idle"
  /\ rescan' = "sent"
  /\ UNCHANGED <<tags, present, songs, albums, playlists, playlistSongs, run,
                 fsChanges, memberships, diskChanged, unreadable>>
  /\ UNCHANGED <<response, toast, now, store, songsPage, albumStore,
                 albumsPage, calls, dataCache, scrobbler, player>>

\* The handler: await initializeLibrary(), which opens the database, reads
\* the settings and, as there are settings, registers a timer that will call
\* initializeData(settings.musicFolder, true); then it returns.
rescanLibrary ==
  /\ rescan = "sent"
  /\ rescan' = "scheduled"
  /\ UNCHANGED <<tags, present, songs, albums, playlists, playlistSongs, run,
                 fsChanges, memberships, diskChanged, unreadable>>
  /\ UNCHANGED <<response, toast, now, store, songsPage, albumStore,
                 albumsPage, calls, dataCache, scrobbler, player>>

\* the request resolves in the settings page: setMusicLoading(false) and the
\* toast
RescanResolved ==
  /\ rescan = "scheduled"
  /\ rescan' = "resolved"
  /\ toast' = "Your library is rescanned."
  /\ UNCHANGED <<tags, present, songs, albums, playlists, playlistSongs, run,
                 fsChanges, memberships, diskChanged, unreadable>>
  /\ UNCHANGED <<response, now, store, songsPage, albumStore,
                 albumsPage, calls, dataCache, scrobbler, player>>

\* the timer of initializeLibrary fires, one second after it was registered
RescanTimer ==
  /\ rescan \in {"scheduled", "resolved"}
  /\ initializeData(RescanRun, MusicFolder, TRUE)

\* the disk changes after the start-up scan and before the button is pressed
DiskChange ==
  /\ rescan = "idle"
  /\ \/ \E p \in AudioPaths : DeleteFile(p)
     \/ \E p \in AudioPaths : AddFile(p, PlainTrack)

RescanNext ==
  \/ DiskChange
  \/ RescanRequest
  \/ rescanLibrary
  \/ RescanResolved
  \/ RescanTimer
  \/ ProcessFile(RescanRun)
  \/ EndShallow(RescanRun)
  \/ BackgroundPass(RescanRun)
  \/ NextBatch(RescanRun)
  \/ CleanupSelect(RescanRun)
  \/ CleanupDeleteBatch(RescanRun)
  \/ CleanupAlbums(RescanRun)

\* an indexed library of any of the tracks
RescanInit == \E files \in SUBSET AudioPaths : LibraryInit(files)

RescanSpec == RescanInit /\ [][RescanNext]_vars

(***************************************************************************)
(* The main process's dataCache (background.ts): the two handlers that     *)
(* read it, the pre-caching after the start-up scan and the playlist       *)
(* handlers that invalidate it. Times are in minutes.                      *)
(***************************************************************************)
\* Date.now() when the app starts: later than 1970 by more than the TTL
StartTime == 100

\* Date.now() of the main process
DateNow == StartTime + now

\* 300000 milliseconds
DataCacheTTL == 5

MutationHandlers == {"createPlaylist", "updatePlaylist", "addSongToPlaylist",
                     "removeSongFromPlaylist"}

\* dataCache.x && Date.now() - dataCache.lastUpdated < 300000
Fresh(cache, value) ==
  value # None /\ DateNow - cache.lastUpdated < DataCacheTTL

\* a playlist handler: the store is changed, then dataCache.lastUpdated = 0
PlaylistMutation(handler) ==
  /\ dataCache.mutations < MaxMutations
  /\ dataCache' = [dataCache EXCEPT !.mutations = @ + 1, !.lastUpdated = 0,
                                    !.gotStats = None, !.gotItems = None]
  /\ UNCHANGED <<tags, present, songs, albums, playlists, playlistSongs, run,
                 fsChanges, memberships, diskChanged, unreadable>>
  /\ UNCHANGED <<response, toast, now, store, songsPage, albumStore,
                 albumsPage, calls, rescan, scrobbler, player>>

\* ipcMain.handle("getLibraryStats")
getLibraryStats ==
  /\ IF Fresh(dataCache, dataCache.libraryStats)
     THEN dataCache' = [dataCache EXCEPT !.gotStats = dataCache.libraryStats]
     ELSE dataCache' = [dataCache EXCEPT !.libraryStats = dataCache.mutations,
                                         !.lastUpdated = DateNow,
                                         !.gotStats = dataCache.mutations]
  /\ UNCHANGED <<tags, present, songs, albums, playlists, playlistSongs, run,
                 fsChanges, memberships, diskChanged, unreadable>>
  /\ UNCHANGED <<response, toast, now, store, songsPage, albumStore,
                 albumsPage, calls, rescan, scrobbler, player>>

\* ipcMain.handle("getRandomLibraryItems")
getRandomLibraryItems ==
  /\ IF Fresh(dataCache, dataCache.randomItems)
     THEN dataCache' = [dataCache EXCEPT !.gotItems = dataCache.randomItems]
     ELSE dataCache' = [dataCache EXCEPT !.randomItems = dataCache.mutations,
                                         !.lastUpdated = DateNow,
                                         !.gotItems = dataCache.mutations]
  /\ UNCHANGED <<tags, present, songs, albums, playlists, playlistSongs, run,
                 fsChanges, memberships, diskChanged, unreadable>>
  /\ UNCHANGED <<response, toast, now, store, songsPage, albumStore,
                 albumsPage, calls, rescan, scrobbler, player>>

\* initializeLibrary after the start-up scan: both values are queried and
\* cached
PreCache ==
  /\ dataCache = EmptyDataCache
  /\ dataCache' = [dataCache EXCEPT !.libraryStats = dataCache.mutations,
                                    !.randomItems = dataCache.mutations,
                                    !.lastUpdated = DateNow]
  /\ UNCHANGED <<tags, present, songs, albums, playlists, playlistSongs, run,
                 fsChanges, memberships, diskChanged, unreadable>>
  /\ UNCHANGED <<response, toast, now, store, songsPage, albumStore,
                 albumsPage, calls, rescan, scrobbler, player>>

DataCacheNext ==
  \/ PreCache
  \/ \E handler \in MutationHandlers : PlaylistMutation(handler)
  \/ getLibraryStats
  \/ getRandomLibraryItems
  \/ \E minutes \in {1, DataCacheTTL} : Elapse(minutes)

DataCacheSpec == LibraryInit({"M/m.ogg"}) /\ [][DataCacheNext]_vars

(***************************************************************************)
(* Last.fm scrobbling of the Player component (components/main/navbar.tsx, *)
(* lib/lastfm.ts). One action is one event with the state updates it makes *)
(* and the effects React runs after them. The scrobble threshold is not    *)
(* changed and nobody logs out of Last.fm.                                 *)
(***************************************************************************)
PlayerSongs == {1, 2}

\* handleScrobble(): the guard, then the interval in scrobbleTimeout is
\* replaced by a new one
handleScrobble(sc) ==
  IF sc.song = 0 \/ ~sc.enableLastFm \/ sc.isScrobbled \/ ~sc.authenticated
  THEN sc
  ELSE [sc EXCEPT !.timer = TRUE]

\* the effect "Start scrobble timer when playing", which runs when
\* isPlaying, song, lastFmSettings, scrobbleTimerStarted or handleScrobble
\* (song, lastFmSettings, isScrobbled) has changed
StartScrobbleTimer(sc) ==
  IF /\ sc.isPlaying
     /\ sc.song # 0
     /\ sc.enableLastFm
     /\ ~sc.scrobbleTimerStarted
     /\ sc.authenticated
  THEN handleScrobble([sc EXCEPT !.nowPlaying = @ + 1])
  ELSE sc

\* the effect runs after an update that changed one of its dependencies
AfterUpdate(sc) ==
  IF <<sc.isPlaying, sc.song, sc.scrobbleTimerStarted, sc.isScrobbled>>
       # <<scrobbler.isPlaying, scrobbler.song,
           scrobbler.scrobbleTimerStarted, scrobbler.isScrobbled>>
  THEN StartScrobbleTimer(sc)
  ELSE sc

\* the scrobbler changes to sc, unless that takes more requests than the
\* behaviour has
ScrobblerBecomes(sc) ==
  /\ sc.nowPlaying <= MaxNowPlaying
  /\ sc.requests <= MaxScrobbles
  /\ scrobbler' = sc
  /\ UNCHANGED <<tags, present, songs, albums, playlists, playlistSongs, run,
                 fsChanges, memberships, diskChanged, unreadable>>
  /\ UNCHANGED <<response, toast, now, store, songsPage, albumStore,
                 albumsPage, calls, rescan, dataCache, player>>

\* The current song changes: the effects "Reset scrobble status when song
\* changes" clear the status and the interval, the timer effect runs, the
\* audio effect makes a new Howl.
SongChanges(s) ==
  /\ s # scrobbler.song
  /\ ScrobblerBecomes(AfterUpdate(
       [scrobbler EXCEPT
          !.song = s, !.reached = FALSE,
          !.isScrobbled = FALSE, !.scrobbleTimerStarted = FALSE,
          !.timer = FALSE,
          !.inFlightOld = @ + scrobbler.inFlight, !.inFlight = 0,
          !.sent = 0, !.succeeded = 0, !.failed = 0]))

\* onload and onplay of the Howl, onpause
SetIsPlaying(playing) ==
  /\ scrobbler.song # 0
  /\ scrobbler.isPlaying # playing
  /\ ScrobblerBecomes(AfterUpdate(
       [scrobbler EXCEPT !.isPlaying = playing]))

\* playing on, or handleSeek: the position gets to the other side of the
\* threshold
Seek(reached) ==
  /\ scrobbler.song # 0
  /\ scrobbler.reached # reached
  /\ ScrobblerBecomes([scrobbler EXCEPT !.reached = reached])

\* playedPercentage >= lastFmSettings.scrobbleThreshold
ThresholdReached(sc) == sc.reached

\* scrobbleIfThresholdReached, called by the interval, at the threshold: the
\* interval is cleared, isScrobbled is set, scrobbleTrack(song) sends the
\* request
ScrobbleTimerFires ==
  /\ scrobbler.timer
  /\ ThresholdReached(scrobbler)
  /\ ScrobblerBecomes(AfterUpdate(
       [scrobbler EXCEPT
          !.timer = FALSE, !.isScrobbled = TRUE,
          !.inFlight = @ + 1, !.sent = @ + 1, !.requests = @ + 1,
          !.sentWhileOff = @ \/ (~scrobbler.enableLastFm
                                  /\ ~scrobbler.stored)]))

\* a scrobble request of this play resolves; a failure resets isScrobbled
ScrobbleResolves(success) ==
  /\ scrobbler.inFlight > 0
  /\ ScrobblerBecomes(
       IF success
       THEN [scrobbler EXCEPT !.inFlight = @ - 1, !.succeeded = @ + 1]
       ELSE AfterUpdate(
              [scrobbler EXCEPT !.inFlight = @ - 1, !.failed = @ + 1,
                                !.isScrobbled = FALSE]))

\* a scrobble request of an earlier play resolves
OldScrobbleResolves(success) ==
  /\ scrobbler.inFlightOld > 0
  /\ ScrobblerBecomes(
       IF success
       THEN [scrobbler EXCEPT !.inFlightOld = @ - 1]
       ELSE AfterUpdate(
              [scrobbler EXCEPT !.inFlightOld = @ - 1,
                                !.isScrobbled = FALSE]))

\* updateNowPlaying resolves: scrobbleTimerStarted: true
NowPlayingResolves ==
  /\ scrobbler.nowPlaying > 0
  /\ ScrobblerBecomes(AfterUpdate(
       [scrobbler EXCEPT !.nowPlaying = @ - 1,
                         !.scrobbleTimerStarted = TRUE]))

\* the settings page's updateLastFmSettings: the main process stores the
\* settings and sends lastFmSettingsChanged; the player asks for them
updateLastFmSettings(enableLastFm) ==
  /\ scrobbler.changes < MaxSettingsChanges
  /\ scrobbler.loading = <<>>
  /\ ScrobblerBecomes(
       [scrobbler EXCEPT !.stored = enableLastFm,
                         !.loading = <<enableLastFm>>,
                         !.changes = @ + 1])

\* getLastFmSettings resolves in loadLastFmSettings: lastFmSettings is a new
\* object, so the timer effect runs
loadLastFmSettings ==
  /\ scrobbler.loading # <<>>
  /\ LET enableLastFm == scrobbler.loading[1]
     IN  ScrobblerBecomes(StartScrobbleTimer(
           IF enableLastFm
           THEN [scrobbler EXCEPT !.loading = <<>>, !.enableLastFm = TRUE,
                                  !.authenticated = TRUE]
           ELSE [scrobbler EXCEPT !.loading = <<>>, !.enableLastFm = FALSE,
                                  !.isScrobbled = FALSE]))

ScrobbleNext ==
  \/ \E s \in PlayerSongs : SongChanges(s)
  \/ \E playing \in BOOLEAN : SetIsPlaying(playing)
  \/ \E reached \in BOOLEAN : Seek(reached)
  \/ ScrobbleTimerFires
  \/ \E success \in BOOLEAN : ScrobbleResolves(success)
  \/ \E success \in BOOLEAN : OldScrobbleResolves(success)
  \/ NowPlayingResolves
  \/ \E enableLastFm \in BOOLEAN : updateLastFmSettings(enableLastFm)
  \/ loadLastFmSettings

ScrobbleSpec == LibraryInit({"M/m.ogg"}) /\ [][ScrobbleNext]_vars

(***************************************************************************)
(* The play queue: the PlayerProvider of components/ui/songs.tsx           *)
(***************************************************************************)
\* the index from 0 of the first song with this id, or -1
findSongIndexById(list, id) ==
  IF \E i \in 1..Len(list) : list[i] = id
  THEN (CHOOSE i \in 1..Len(list) :
          list[i] = id /\ \A j \in 1..(i - 1) : list[j] # id) - 1
  ELSE None

\* lib/helpers' shuffleArray: the orders it may return
shuffleArray(list) ==
  {[i \in 1..Len(list) |-> list[f[i]]] : f \in Permutations(1..Len(list))}

\* the states setQueueAndPlay may set: everything but the queue is reset
setQueueAndPlay(list, startIndex, shuffle) ==
  {[initialPlayerState EXCEPT
      !.queue = shuffledQueue,
      !.originalQueue = list,
      !.currentIndex = startIndex,
      !.song = IF startIndex < Len(shuffledQueue)
               THEN shuffledQueue[startIndex + 1] ELSE 0,
      !.shuffle = shuffle] :
   shuffledQueue \in IF shuffle THEN shuffleArray(list) ELSE {list}}

nextSong(prevState) ==
  IF prevState.repeat THEN prevState
  ELSE LET nextIndex == prevState.currentIndex + 1
       IN  IF nextIndex < Len(prevState.queue)
           THEN [prevState EXCEPT
                   !.currentIndex = nextIndex,
                   !.history = Append(@, prevState.queue[nextIndex]),
                   !.song = prevState.queue[nextIndex + 1]]
           ELSE prevState

previousSong(prevState) ==
  IF prevState.repeat THEN prevState
  ELSE IF Len(prevState.history) > 0
  THEN LET previous == prevState.history[Len(prevState.history)]
           prevIndex == findSongIndexById(prevState.queue, previous)
       IN  [prevState EXCEPT
              !.history = SubSeq(@, 1, Len(@) - 1),
              !.song = previous,
              !.currentIndex = IF prevIndex >= 0 THEN prevIndex ELSE @]
  ELSE prevState

\* toggleRepeat without "Disable shuffle if turning on repeat"
toggleRepeatOnly(prevState) ==
  [prevState EXCEPT !.repeat = ~prevState.repeat]

toggleRepeat(prevState) ==
  [prevState EXCEPT
     !.repeat = ~prevState.repeat,
     !.shuffle = IF ~prevState.repeat THEN FALSE ELSE @]

\* the states toggleShuffle may set
toggleShuffle(prevState) ==
  LET newShuffle == ~prevState.shuffle
      currentSong == prevState.song
      otherSongs == SelectSeq(prevState.originalQueue,
                              LAMBDA s : s # currentSong)
      newIndex == findSongIndexById(prevState.originalQueue, currentSong)
  IN  IF currentSong = 0 THEN {prevState}
      ELSE IF newShuffle
      THEN {[prevState EXCEPT
               !.shuffle = TRUE,
               !.queue = <<currentSong>> \o shuffledOtherSongs,
               !.currentIndex = 0,
               !.repeat = FALSE] :
            shuffledOtherSongs \in shuffleArray(otherSongs)}
      ELSE {[prevState EXCEPT
               !.shuffle = FALSE,
               !.queue = prevState.originalQueue,
               !.currentIndex = IF newIndex < 0 THEN 0 ELSE newIndex]}

playNext(prevState, song) ==
  LET \* slice(0, index), song, slice(index)
      InsertAt(list, index) ==
        SubSeq(list, 1, IF index < Len(list) THEN index ELSE Len(list))
          \o <<song>> \o SubSeq(list, index + 1, Len(list))
      currentIndex == prevState.currentIndex
      queue == prevState.queue
      originalQueue == prevState.originalQueue
      insertIndex == currentIndex + 1
      originalInsertIndex ==
        findSongIndexById(originalQueue,
                          IF currentIndex >= 0 /\ currentIndex < Len(queue)
                          THEN queue[currentIndex + 1] ELSE None) + 1
  IN  [prevState EXCEPT
         !.queue = InsertAt(queue, insertIndex),
         !.originalQueue = InsertAt(originalQueue, originalInsertIndex)]

addToQueue(prevState, song) ==
  [prevState EXCEPT !.queue = Append(@, song),
                    !.originalQueue = Append(@, song)]

setSong(prevState, song) == [prevState EXCEPT !.song = song]

\* setPlayerState(state) after operation op was called with song arg
PlayerBecomes(op, arg, state) ==
  /\ Len(state.queue) <= MaxQueueLen
  /\ Len(state.originalQueue) <= MaxQueueLen
  /\ Len(state.history) <= MaxHistory
  /\ player' = [state |-> state, op |-> op, arg |-> arg,
                wasShuffle |-> player.state.shuffle]
  /\ UNCHANGED <<tags, present, songs, albums, playlists, playlistSongs, run,
                 fsChanges, memberships, diskChanged, unreadable, response,
                 toast, now, store, songsPage, albumStore, albumsPage, calls,
                 rescan, dataCache, scrobbler>>

\* setQueueAndPlay is given the song list of a page: no id twice
PlayerNext ==
  \/ \E list \in {<<>>} \cup {<<s>> : s \in PlayerSongs}
                       \cup {u \in PlayerSongs \X PlayerSongs : u[1] # u[2]},
          shuffle \in BOOLEAN :
       \E startIndex \in 0..(IF list = <<>> THEN 0 ELSE Len(list) - 1) :
         \E state \in setQueueAndPlay(list, startIndex, shuffle) :
           PlayerBecomes("setQueueAndPlay", 0, state)
  \/ PlayerBecomes("nextSong", 0, nextSong(player.state))
  \/ PlayerBecomes("previousSong", 0, previousSong(player.state))
  \/ PlayerBecomes("toggleRepeat", 0, toggleRepeat(player.state))
  \/ \E state \in toggleShuffle(player.state) :
       PlayerBecomes("toggleShuffle", 0, state)
  \/ \E song \in PlayerSongs :
       PlayerBecomes("playNext", song, playNext(player.state, song))
  \/ \E song \in PlayerSongs :
       PlayerBecomes("addToQueue", song, addToQueue(player.state, song))
  \/ \E song \in PlayerSongs :
       PlayerBecomes("setSong", song, setSong(player.state, song))

PlayerSpec == LibraryInit({"M/m.ogg"}) /\ [][PlayerNext]_vars

(***************************************************************************)
(* Properties                                                              *)
(***************************************************************************)
\* a file that parseFile can read and that carries a title tag
Titled(p) == tags[p].ok /\ tags[p].title # ""

SongsOf(p) == {s \in songs : s.filePath = p}

\* run r is over, no later run has started and the disk is the one it walked
JustCompleted(r) ==
  /\ run[r].pc = "done"
  /\ \A q \in Runs : q > r => run[q].pc = "idle"
  /\ ~diskChanged

\* C1: after a non-incremental reconcile has returned, every readable audio
\* file with a title tag under the music folder, at any depth, has a Song row
\* with its path.
C1_FullReconcileIndexesEveryTitledFile ==
  \A r \in Runs :
    (JustCompleted(r) /\ ~run[r].incremental)
      => \A p \in present : Titled(p) => SongsOf(p) # {}

\* a non-incremental run has just indexed the file two levels down and
\* another file
C1_Witness ==
  \E r \in Runs :
    /\ JustCompleted(r) /\ ~run[r].incremental
    /\ "M/a/d/x.mp3" \in present /\ Titled("M/a/d/x.mp3")
    /\ SongsOf("M/a/d/x.mp3") # {}
    /\ run[r].insSongs >= 2

\* C2: after an incremental reconcile has finished its background pass and
\* orphan cleanup, every readable audio file with a title tag under the music
\* folder has a Song row with its path, also the files below the shallow pass.
C2_IncrementalReconcileIndexesEveryTitledFile ==
  \A r \in Runs :
    (JustCompleted(r) /\ run[r].incremental)
      => \A p \in present : Titled(p) => SongsOf(p) # {}

\* C3: when an incremental run ends, no path handled by its shallow pass
\* occurs in more than one Song row.
C3_ShallowFilesNotProcessedAgain ==
  \A r \in Runs :
    (JustCompleted(r) /\ run[r].incremental)
      => \A p \in Range(run[r].initialBatch) : Cardinality(SongsOf(p)) <= 1

\* C4: a reconcile that follows a completed reconcile of the same folder with
\* no change on disk in between inserts no Song or Album row and deletes no
\* Song, Album or PlaylistSong row.
C4_SecondReconcileChangesNothing ==
  \A r \in Runs :
    (run[r].pc = "done" /\ run[r].repeat)
      => /\ run[r].insSongs = 0 /\ run[r].insAlbums = 0
         /\ run[r].delSongs = 0 /\ run[r].delAlbums = 0
         /\ run[r].delMemberships = 0

\* C5: after a reconcile has completed, no Song row has a path that is absent
\* from disk and no PlaylistSong row refers to a song that is gone.
C5_NoOrphanSongOrMembership ==
  \A r \in Runs :
    JustCompleted(r)
      => /\ \A s \in songs : s.filePath \in present
         /\ \A row \in BagToSet(playlistSongs) :
               \E s \in songs : s.id = row.songId

\* a reconcile has removed a song together with a playlist membership
C5_Witness ==
  \E r \in Runs :
    JustCompleted(r) /\ run[r].delSongs > 0 /\ run[r].delMemberships > 0

\* C6: after orphan cleanup has completed, every Album row is referenced by
\* at least one Song row.
C6_NoAlbumWithoutSongs ==
  \A r \in Runs :
    JustCompleted(r) => \A a \in albums : \E s \in songs : s.albumId = a.id

\* a reconcile has deleted an album that lost its last song
C6_Witness ==
  \E r \in Runs : JustCompleted(r) /\ run[r].delAlbums > 0

\* C7: after reconcile, every song references the Album row named by its
\* file's album tag, and no two Album rows have the same name.
C7_OneAlbumPerName ==
  \A r \in Runs :
    JustCompleted(r)
      => /\ \A s \in songs :
              \E a \in albums : /\ a.id = s.albumId
                                /\ a.name = AlbumName(tags[s.filePath])
         /\ \A a, b \in albums : a.name = b.name => a = b

\* C8: after a reconcile that removed the Song row of a deleted file, every
\* remaining Song row's albumId refers to an existing Album row.
C8_RemainingSongsKeepTheirAlbum ==
  \A r \in Runs :
    (JustCompleted(r) /\ run[r].delSongs > 0)
      => \A s \in songs : \E a \in albums : a.id = s.albumId

\* a reconcile removed a song of an album that another song still references
C8_Witness ==
  \E r \in Runs :
    /\ JustCompleted(r) /\ run[r].delSongs > 0 /\ run[r].delAlbums = 0
    /\ songs # {}
    /\ \E p \in AudioPaths \ present, s \in songs :
          Titled(p) /\ AlbumName(tags[p]) = AlbumName(tags[s.filePath])

\* C9: a file without a title tag never has a Song row.
C9_UntitledFileNeverIndexed ==
  \A s \in songs : tags[s.filePath].title # ""

\* a readable file without a title tag went through two reconciles in a row
C9_Witness ==
  \E p \in present, r \in Runs :
    /\ tags[p].ok /\ tags[p].title = ""
    /\ JustCompleted(r) /\ run[r].repeat
    /\ p \in Range(run[r].allFiles)

\* C10: in an incremental run the background walk has not begun before every
\* file of the shallow pre-scan is processed and its Song row is in the store.
C10_ShallowPassVisibleBeforeBackgroundWalk ==
  \A r \in Runs :
    (run[r].incremental /\ run[r].pc = "full")
      => \A p \in Range(run[r].initialBatch) : Titled(p) => SongsOf(p) # {}

\* the background walk begins right after a shallow pass that inserted songs
C10_Witness ==
  \E r \in Runs :
    /\ run[r].incremental /\ run[r].pc = "full"
    /\ run[r].i = Len(run[r].initialBatch) /\ run[r].k = 1
    /\ run[r].insSongs >= 2

(***************************************************************************)
(* Properties under failures (FaultSpec)                                   *)
(***************************************************************************)
\* the batch loop of run r is over
BatchesOver(r) == run[r].pc \in {"cleanup", "done", "failed", "rejected"}

\* the files run r handed to processBatch: the shallow batch and the walk
\* from the index the loop started at
HandedToProcessBatch(r) ==
  Range(run[r].initialBatch) \cup
  Range(Slice(run[r].allFiles, BackgroundStartIndex(r), Len(run[r].allFiles)))

\* C11: no failure during a reconcile, in either mode and the background
\* pass included, ends as an unhandled rejection in the host process.
C11_NoFailureEscapes ==
  \A r \in Runs : run[r].pc # "rejected"

\* C12: a failure on one file is confined to it: once the batch loop of the
\* first reconcile is over, every readable titled file that was handed to
\* processBatch and did not fail itself has a Song row, whether it came
\* later in the failed file's batch or in a later batch.
C12_FailureConfinedToItsFile ==
  BatchesOver(1) /\ run[2].pc = "idle" =>
    \A p \in HandedToProcessBatch(1) :
      Titled(p) /\ p \notin run[1].failed => SongsOf(p) # {}

\* a non-incremental reconcile is over in which the first file of a batch
\* failed and the second file of the same batch and a file of the next
\* batch were inserted
C12_Witness ==
  /\ run[1].pc = "done" /\ run[2].pc = "idle" /\ ~run[1].incremental
  /\ Len(run[1].allFiles) > FullBatchSize
  /\ run[1].allFiles[1] \in run[1].failed
  /\ SongsOf(run[1].allFiles[2]) # {}
  /\ SongsOf(run[1].allFiles[FullBatchSize + 1]) # {}

(***************************************************************************)
(* Properties with unreadable directories (UnreadableSpec)                 *)
(***************************************************************************)
\* the rows of playlistSongs of the songs whose file is on disk
MembershipsOfPresentFiles ==
  {m \in DOMAIN playlistSongs :
     \E s \in songs : s.id = m.songId /\ s.filePath \in present}

\* C20: no step of a reconcile deletes a Song row whose file is still on
\* disk under the music folder, nor a playlist membership of such a song,
\* also when a directory of the tree could not be read during the walk.
C20_PresentFilesKeepTheirRows ==
  [][ /\ \A s \in songs : s.filePath \in present => s \in songs'
      /\ \A m \in MembershipsOfPresentFiles : BagIn(m, playlistSongs')
    ]_vars

(***************************************************************************)
(* Properties of overlapping reconciles (OverlapSpec)                      *)
(***************************************************************************)
\* reconcile 2 was requested while reconcile 1 was running; both are over
BothFinished ==
  /\ run[1].pc = "done"
  /\ run[2].pc = "done"
  /\ run[2].overlapped
  /\ \A r \in Runs : r > 2 => run[r].pc = "idle"

\* C18: when two reconciles overlap, no file path is in more than one Song
\* row once both have finished. Stated for two non-incremental reconciles
\* (scanLibrary twice), neither of which processes a file twice on its own.
C18_OverlapLeavesOneRowPerPath ==
  BothFinished /\ ~run[1].incremental /\ ~run[2].incremental =>
    \A p \in AudioPaths : Cardinality(SongsOf(p)) <= 1

\* C19: a scan of folder B (scanLibrary, non-incremental) requested while an
\* earlier scan was running: once both have finished, every readable titled
\* audio file of B has a Song row.
C19_LatestFolderIsIndexed ==
  BothFinished /\ ~run[2].incremental =>
    \A p \in Range(run[2].allFiles) : Titled(p) => SongsOf(p) # {}

(***************************************************************************)
(* Properties of playlists (PlaylistSpec)                                  *)
(***************************************************************************)
AddedRow(playlistId, songId) == [playlistId |-> playlistId, songId |-> songId]

\* C13: addSongToPlaylist(p, s) with a row (p, s) in playlistSongs inserts
\* nothing and resolves to false, which the navbar shows as "already
\* exists"; without such a row it inserts one row (p, s) and resolves to
\* true.
C13_AddSongToPlaylistOnceOnly ==
  [][ \A playlistId \in 1..MaxPlaylists, songId \in {row.id : row \in songs} :
        addSongToPlaylist(playlistId, songId) =>
          IF BagIn(AddedRow(playlistId, songId), playlistSongs)
          THEN /\ playlistSongs' = playlistSongs
               /\ response' = FALSE
               /\ toast' = "Song already exists in playlist"
          ELSE /\ playlistSongs' =
                    playlistSongs (+) SetToBag({AddedRow(playlistId, songId)})
               /\ CopiesIn(AddedRow(playlistId, songId), playlistSongs') = 1
               /\ response' = TRUE
               /\ toast' = "Song added to playlist"
    ]_vars

\* a request for a row that is there was answered
C13_Witness ==
  /\ toast = "Song already exists in playlist"
  /\ response = FALSE
  /\ BagCardinality(playlistSongs) = 1

\* the rows initializeData inserted into playlists
FavouritesRows ==
  {row \in playlists :
     row.name = "Favourites" /\ row.description = "Songs liked by you."}

Reverse(list) == [n \in 1..Len(list) |-> list[Len(list) + 1 - n]]

Names(list) == [n \in 1..Len(list) |-> list[n].name]

WithName(list, name) == SelectSeq(list, LAMBDA x : x.name = name)

NoDuplicateIds(list) ==
  \A m, n \in 1..Len(list) : m # n => list[m].id # list[n].id

\* C16: neither the cached full set nor the displayed list of the songs page
\* or of the albums page holds two items with the same id.
C16_NoDuplicateIds ==
  /\ NoDuplicateIds(store.all)
  /\ NoDuplicateIds(songsPage.filtered)
  /\ NoDuplicateIds(albumStore.all)
  /\ NoDuplicateIds(albumsPage.filtered)

\* the page came up with cached items and its effects sent no request
ShownWithoutRefetch(pg) == pg.mounted /\ pg.shown > 0 /\ ~pg.fetched

C21_OneRowPerPair ==
  \A row \in BagToSet(playlistSongs) : CopiesIn(row, playlistSongs) <= 1

\* two requests to add the same song to the same playlist are over and the
\* later one found the row of the earlier one
C21_Witness ==
  \E c, d \in Calls :
    /\ c # d
    /\ calls[c].pc = "done" /\ calls[d].pc = "done"
    /\ calls[c].op # "removeSongFromPlaylist"
    /\ calls[d].op = "addSongToPlaylist" /\ calls[d].exists
    /\ calls[c].playlistId = calls[d].playlistId
    /\ calls[c].songId = calls[d].songId
    /\ CopiesIn([playlistId |-> calls[c].playlistId,
                 songId |-> calls[c].songId], playlistSongs) = 1


\* C22: when the rescanLibrary request has resolved and the settings page
\* says 'Your library is rescanned.', the reconcile it triggered is over:
\* all batches are processed and the orphan cleanup has run.
C22_RescannedWhenToldSo ==
  rescan = "resolved" /\ toast = "Your library is rescanned."
    => run[RescanRun].pc = "done"


\* C23: once a playlist mutation has invalidated the data cache, what
\* getLibraryStats and getRandomLibraryItems are answered with was queried
\* from the store after that mutation.
C23_NoValueFromBeforeTheMutation ==
  /\ dataCache.gotStats # None => dataCache.gotStats = dataCache.mutations
  /\ dataCache.gotItems # None => dataCache.gotItems = dataCache.mutations


\* C24: once scrobbling is turned off and the player has loaded that
\* setting, no scrobble request is sent, also not for the song that is
\* playing.
C24_NoScrobbleOnceTurnedOff == ~scrobbler.sentWhileOff

\* C25: one play of a song gets at most one successful scrobble, and a
\* further scrobble request is sent only after an earlier one of that play
\* has failed.
C25_OneScrobblePerPlay ==
  /\ scrobbler.succeeded <= 1
  /\ scrobbler.sent <= scrobbler.failed + 1


\* C26: when a scrobble attempt of this play has failed and no other is on
\* its way or has succeeded, then, while the song plays past the threshold
\* with scrobbling on, the interval that makes the next attempt is running.
C26_RetryAfterFailure ==
  /\ scrobbler.failed > 0
  /\ scrobbler.succeeded = 0
  /\ scrobbler.inFlight = 0
  /\ scrobbler.isPlaying
  /\ scrobbler.reached
  /\ scrobbler.enableLastFm /\ scrobbler.stored
  => scrobbler.timer

\* state after calling nextSong k times with nothing in between
RECURSIVE NextSongTimes(_, _)
NextSongTimes(state, k) ==
  IF k = 0 THEN state ELSE NextSongTimes(nextSong(state), k - 1)

\* C27: whenever shuffle is off, queue equals originalQueue item by item
\* (songs compared by id).
C27_QueueInOriginalOrderWhenShuffleOff ==
  ~player.state.shuffle => player.state.queue = player.state.originalQueue

\* C28: with repeat off, a song just added with addToQueue or playNext is
\* the current song after some number of nextSong calls, also when nothing
\* was playing when it was added.
C28_AddedSongIsReached ==
  (player.op \in {"addToQueue", "playNext"} /\ ~player.state.repeat)
    => \E k \in 0..(MaxQueueLen + 1) :
         NextSongTimes(player.state, k).song = player.arg

\* C29: starting with repeat and shuffle off, repeat and shuffle are never
\* both on.
C29_NeverRepeatAndShuffle ==
  ~(player.state.repeat /\ player.state.shuffle)

\* toggleRepeat has turned repeat on in a player whose shuffle was on
C29_Witness ==
  /\ player.op = "toggleRepeat"
  /\ player.wasShuffle
  /\ player.state.repeat
  /\ ~player.state.shuffle

\* C30: a search on the songs page leaves the cached full song set
\* (allSongs) and the page's loaded song list as they were, whatever the
\* number of results.
C30_SearchKeepsLoadedSongs ==
  [][((\E term \in {"", "t", "c", "z"} : SetSearchTerm(term)) \/ ResolveSearch)
       => (store'.all = store.all /\ songsPage'.items = songsPage.items)]_vars

====
